---- MODULE Spec2Model ----
(***************************************************************************)
(* OG Personal: risk-detection and scoring core.                           *)
(*                                                                         *)
(*   - OGLLMClient: quickCheck, detect, parseDetectionResult, detectBatch  *)
(*   - the OpenClaw plugin's six hook handlers and the audit log           *)
(*   - OGAgent: calculateBlastRadius, calculateRiskAssessment              *)
(*                                                                         *)
(* The module holds several specifications over one set of variables; a    *)
(* specification leaves the variables of the other components at their     *)
(* initial value.                                                          *)
(*   SpecDetect  one OGLLMClient.detect call                               *)
(*   SpecBatch   one OGLLMClient.detectBatch call, remote calls completing *)
(*               in any order                                              *)
(*   SpecHooks   the plugin's hook handlers, invoked by the host           *)
(*   SpecScore   calculateBlastRadius and calculateRiskAssessment          *)
(***************************************************************************)
EXTENDS Integers, Sequences, FiniteSets, TLC

VARIABLES
    \* ---- OGLLMClient.detect (SpecDetect)
    detectCall,     \* the detect call: its request, the remote reply, its outcome
    \* ---- OGLLMClient.detectBatch (SpecBatch)
    requests,       \* the request list of the batch
    slots,          \* per request: the outcome of its detect promise, or pending
    replies,        \* per request: the reply its remote call received, or none yet
    completed,      \* indexes of the remote calls in the order they completed
    batch,          \* the promise returned by detectBatch
    \* ---- plugin hooks (SpecHooks)
    apiKey,         \* llmConfig.apiKey of the plugin configuration
    llmClient,      \* the lazily created client of register()
    pc,             \* where the current handler invocation is
    event,          \* the event the host passed
    auditWritable,  \* whether appending to the audit file succeeds
    auditLog,       \* the audit lines this invocation appended
    remoteCalls,    \* remote classification requests this invocation issued
    verdicts,       \* the list detectBatch resolved with, when it was awaited
    hookResult,     \* what the handler returned to the host
    \* ---- risk scoring (SpecScore)
    scanInput,      \* a host snapshot and a detection list
    assessment,     \* the RiskAssessment computed from them
    \* ---- the agent object (SpecAgent)
    openclawState,  \* what OpenClawWatcher.getState() reads now (its config)
    agentApiKey,    \* this.config.apiKey of the OGAgent
    agentLlmClient, \* this.llmClient of the OGAgent
    lastAssessment, \* this.lastAssessment
    scans,          \* the runScan calls made so far, in call order
    quickResult,    \* the last OGAgent.quickCheck call and what it returned
    analysis,       \* the last OGAgent.analyzeContent call
    hostTree,       \* the host state tree on disk as getState finds it
    snapshot,       \* what OpenClawWatcher.getState returned
    registrations,  \* the api.on calls the plugin has made, in call order
    isRunning,      \* this.isRunning of the OGAgent
    scanInterval,   \* this.scanInterval: "null" or "timer"
    timers,         \* interval timers set and not cleared
    watcher,        \* the agent's OpenClawWatcher
    stopCalls,      \* stop() calls waiting in await this.watcher.stop()
    lifecycle,      \* the started and stopped events emitted, in order
    launched,       \* who called runScan for each entry of scans
    agentSettings,  \* this.config.apiBaseUrl and this.config.model of the OGAgent
    clientBuiltFrom, \* the constructor arguments of this.llmClient
    handlers,       \* this.handlers of the OGAgent
    delivery,       \* the last emit: the handlers at its start, the calls it made
    changedPath,    \* the path chokidar reports, as its segments
    watchEvent,     \* what handleFileChange emitted for it
    agentDid,       \* what handleWatchEvent did with that, in order
    gwClosed,       \* this.closed of the GatewayClient
    gwWs,           \* this.ws: "null", or the state of the socket it refers to
    orphans,        \* sockets this.ws does not refer to, counted by state
    reconnectTimers, \* window.setTimeout(() => this.connect()) calls pending
    backoffMs,      \* this.backoffMs, in thousandths of a millisecond
    delays,         \* the last two delays scheduled since the last open
    openclawDir,    \* whether the OpenClaw base directory exists
    wire,           \* messages the gateway server sent, not yet handled
    dashboard,      \* OGApp's configured, moltbotInstalled and assessment
    handled         \* the message OGApp.handleMessage handled last

detectVars == <<detectCall>>
batchVars  == <<requests, slots, replies, completed, batch>>
hookVars   == <<apiKey, llmClient, pc, event, auditWritable, auditLog,
                remoteCalls, verdicts, hookResult>>
scoreVars  == <<scanInput, assessment>>
agentVars  == <<openclawState, agentApiKey, agentLlmClient, lastAssessment,
                scans, quickResult, analysis>>
snapVars   == <<hostTree, snapshot>>
pluginVars == <<registrations>>
lifeVars   == <<isRunning, scanInterval, timers, watcher, stopCalls, lifecycle,
                launched>>
configVars == <<agentSettings, clientBuiltFrom>>
emitVars   == <<handlers, delivery>>
watchVars  == <<changedPath, watchEvent, agentDid>>
gwVars     == <<gwClosed, gwWs, orphans, reconnectTimers, backoffMs, delays>>
statusVars == <<openclawDir, wire, dashboard, handled>>
vars       == <<detectVars, batchVars, hookVars, scoreVars, agentVars,
               snapVars, pluginVars, lifeVars, configVars, emitVars, watchVars,
               gwVars, statusVars>>

(***************************************************************************)
(* Bounds of the model.                                                    *)
(***************************************************************************)
MaxContentLen == 2      \* fragments in a message or in tool parameters
MaxBatch == 2           \* requests in one detectBatch call
MaxDetections == 3      \* detections handed to calculateRiskAssessment
MaxMcp == 2             \* entries of config.tools.mcp
MaxSkills == 1          \* skills the host configuration declares
MaxGrants == 1          \* file-access grants the host configuration declares
MaxScans == 2           \* runScan calls on one agent

Range(s) == {s[i] : i \in DOMAIN s}

SeqsUpTo(S, n) == UNION {[1..k -> S] : k \in 0..n}

Min(a, b) == IF a <= b THEN a ELSE b

(***************************************************************************)
(* OGLLMClient.quickCheck.  A content is a sequence of fragments; a        *)
(* fragment is plain text or a substring that one of the regular           *)
(* expressions matches (named after the expression).                       *)
(***************************************************************************)
injectionPatterns ==
    <<"ignore_previous_instructions", "you_are_now", "act_as",
      "pretend_to_be", "disregard_the_rules", "new_instructions">>

credentialPatterns ==
    <<"sk-", "AKIA", "BEGIN_PRIVATE_KEY", "ghp_", "xox">>

\* pattern.test(content)
Test(pattern, content) == \E i \in DOMAIN content : content[i] = pattern

\* The entries pushed for one pattern family, in the family's order:
\* patterns.push(`<family>: ${pattern.source}`).
RECURSIVE PushMatches(_, _, _, _)
PushMatches(family, list, i, content) ==
    IF i > Len(list) THEN <<>>
    ELSE (IF Test(list[i], content)
          THEN <<[family |-> family, source |-> list[i]]>>
          ELSE <<>>)
         \o PushMatches(family, list, i + 1, content)

quickCheck(content) ==
    LET patterns == PushMatches("injection", injectionPatterns, 1, content)
                    \o PushMatches("credential", credentialPatterns, 1, content)
    IN  [hasObviousRisk |-> Len(patterns) > 0, patterns |-> patterns]

\* p.startsWith("credential:")
StartsWithCredential(p) == p.family = "credential"

\* Only the first matched pattern is looked at.
hasCredentialsFirstOnly(quick) ==
    Len(quick.patterns) > 0 /\ StartsWithCredential(quick.patterns[1])

\* quick.patterns.some((p) => p.startsWith("credential:"))
hasCredentials(quick) ==
    \E i \in DOMAIN quick.patterns : StartsWithCredential(quick.patterns[i])

(***************************************************************************)
(* OGLLMClient.detect and parseDetectionResult.                            *)
(***************************************************************************)
\* The keys of DETECTION_PROMPTS.
DetectionTypes ==
    {"prompt-injection", "system-override", "web-attacks", "mcp-poisoning",
     "malicious-code", "nsfw", "pii", "credentials", "confidential",
     "off-topic", "tool-call", "file-scan", "url-scan", "email",
     "config-audit"}

\* A type the catalog does not hold (a caller outside the type checker).
UnknownType == "not-in-catalog"

\* A name outside the catalog that the object literal DETECTION_PROMPTS
\* inherits from Object.prototype (constructor, toString, ...): looked up, it
\* gives a function.
InheritedKeys == {"constructor"}

\* const systemPrompt = DETECTION_PROMPTS[request.type]; if (!systemPrompt)
\* throw: whether the lookup gives a truthy value.
hasPrompt(type) == type \in DetectionTypes \cup InheritedKeys

\* request.context: absent, an object JSON.stringify serializes, or one it
\* throws on (a cycle, a BigInt).
ContextKinds == {"absent", "plain", "cyclic"}

\* What the remote capability answers to one request.
\*   reject     the call rejects (network, HTTP status, timeout)
\*   malformed  a completion without choices[0].message
\*   nojson     message content without a brace-delimited substring
\*   badjson    a brace-delimited substring JSON.parse rejects
\*   json       a JSON object; isRisk, riskLevel and confidence as sent
JsonIsRisk    == {"absent", "true", "false", "string"}
JsonRiskLevel == {"absent", "null", "high", "medium", "low", "none", "critical"}
JsonConfidence == {<<>>, <<0>>, <<90>>}

FailureKinds == {"reject", "malformed", "nojson", "badjson"}

FailureReply(kind) ==
    [kind |-> kind, isRisk |-> "absent", riskLevel |-> "absent", confidence |-> <<>>]

JsonReply(r, l, c) ==
    [kind |-> "json", isRisk |-> r, riskLevel |-> l, confidence |-> c]

Replies ==
    {FailureReply(k) : k \in FailureKinds}
    \cup {JsonReply(r, l, c) : r \in JsonIsRisk, l \in JsonRiskLevel, c \in JsonConfidence}

\* Boolean(parsed.isRisk)
Truthy(v) == v \in {"true", "string"}

\* parsed.riskLevel ?? "none"
RiskLevelOrNone(v) == IF v \in {"absent", "null"} THEN "none" ELSE v

\* parsed.confidence ?? 0
ConfidenceOrZero(c) == IF c = <<>> THEN 0 ELSE c[1]

DetectionResult(type, isRisk, riskLevel, confidence, details) ==
    [type |-> type, isRisk |-> isRisk, riskLevel |-> riskLevel,
     confidence |-> confidence, details |-> details]

\* parseDetectionResult(type, reasoning, result): result is the message
\* content of a completion (reply.kind is nojson, badjson or json).
parseDetectionResult(type, reply) ==
    CASE reply.kind = "nojson" ->
            DetectionResult(type, FALSE, "none", 0, "parseError")
      [] reply.kind = "badjson" ->
            DetectionResult(type, FALSE, "none", 0, "parseError")
      [] OTHER ->
            DetectionResult(type, Truthy(reply.isRisk),
                            RiskLevelOrNone(reply.riskLevel),
                            ConfidenceOrZero(reply.confidence), "parsed")

NoResult == DetectionResult("", FALSE, "", 0, "")

Request(type, context) == [type |-> type, context |-> context]

\* Whether detect gets as far as issuing the remote request.
issuesRemoteCall(request) ==
    /\ hasPrompt(request.type)
    /\ request.context # "cyclic"

\* detect without its catch block: a failed remote call rejects the promise.
detectWithoutCatch(request, reply) ==
    IF ~hasPrompt(request.type) \/ request.context = "cyclic"
       \/ reply.kind \in {"reject", "malformed"}
    THEN [status |-> "rejected", error |-> "Error", value |-> NoResult]
    ELSE [status |-> "resolved", error |-> "",
          value |-> parseDetectionResult(request.type, reply)]

\* The promise detect(request) settles with, given the reply of its remote
\* call (not read when no call is issued).
detect(request, reply) ==
    IF ~hasPrompt(request.type)
    THEN [status |-> "rejected", error |-> "Unknown detection type", value |-> NoResult]
    ELSE IF request.context = "cyclic"
    THEN [status |-> "rejected", error |-> "TypeError", value |-> NoResult]
    ELSE IF reply.kind \in {"reject", "malformed"}
    THEN [status |-> "resolved", error |-> "",
          value |-> DetectionResult(request.type, FALSE, "none", 0, "error")]
    ELSE [status |-> "resolved", error |-> "",
          value |-> parseDetectionResult(request.type, reply)]

(***************************************************************************)
(* The value of each component's variables while its operations are not    *)
(* running.                                                                *)
(***************************************************************************)
NoReply == FailureReply("none")

NoOutcome == [status |-> "pending", error |-> "", value |-> NoResult]

DetectIdle ==
    detectCall = [phase |-> "idle", request |-> Request("", "absent"),
                  issued |-> FALSE, reply |-> NoReply, outcome |-> NoOutcome]

BatchIdle ==
    /\ requests = <<>>
    /\ slots = <<>>
    /\ replies = <<>>
    /\ completed = <<>>
    /\ batch = [status |-> "idle", value |-> <<>>]

NoEvent == [hook |-> "", content |-> <<>>, toolName |-> "", params |-> "absent"]

HooksIdle ==
    /\ apiKey = ""
    /\ llmClient = "null"
    /\ pc = "unregistered"
    /\ event = NoEvent
    /\ auditWritable = TRUE
    /\ auditLog = <<>>
    /\ remoteCalls = 0
    /\ verdicts = <<>>
    /\ hookResult = "none"

NoAssessment ==
    [level |-> "", score |-> 0, blastRadiusScore |-> 0, threatScore |-> 0,
     detections |-> <<>>]

NoConfig ==
    [present |-> FALSE, channels |-> [c \in {} |-> ""],
     mcp |-> [kind |-> "absent", len |-> 0], skills |-> 0, fileAccess |-> 0]

NoReport ==
    [connections |-> <<>>, mcpTools |-> <<>>, skills |-> <<>>, fileAccess |-> <<>>,
     totalScore |-> 0]

ScoreIdle ==
    /\ scanInput = [phase |-> "idle", config |-> NoConfig, report |-> NoReport]
    /\ assessment = NoAssessment

NoQuickCheck == [called |-> FALSE, content |-> <<>>, hasRisk |-> FALSE, patterns |-> <<>>]

NoAnalysis ==
    [status |-> "idle", client |-> "null", types |-> <<>>, remoteCalls |-> 0,
     error |-> "", results |-> <<>>, riskDetected |-> 0]

NoTree ==
    [config |-> "absent",
     agents |-> [exists |-> FALSE, readable |-> TRUE, dirs |-> <<>>],
     credentials |-> [exists |-> FALSE, readable |-> TRUE, files |-> <<>>]]

NoSnapshot ==
    [returned |-> FALSE, configExists |-> FALSE, config |-> "null", agents |-> <<>>,
     sessions |-> <<>>, credentialFiles |-> <<>>]

SnapIdle ==
    /\ hostTree = NoTree
    /\ snapshot = NoSnapshot

PluginIdle ==
    registrations = <<>>

\* private watcher: FSWatcher | null = null; private isRunning = false; open
\* counts the chokidar watchers created and not closed.
NoWatcher == [isRunning |-> FALSE, ref |-> "null", open |-> 0]

LifeIdle ==
    /\ isRunning = FALSE
    /\ scanInterval = "null"
    /\ timers = 0
    /\ watcher = NoWatcher
    /\ stopCalls = [closing |-> 0, plain |-> 0]
    /\ lifecycle = <<>>
    /\ launched = <<>>

\* apiBaseUrl and model as the schema defaults them.
DefaultSettings == [apiBaseUrl |-> "default-url", model |-> "default-model"]

\* No client was constructed.
NoClientArgs == [apiKey |-> "", apiBaseUrl |-> "", model |-> ""]

ConfigIdle ==
    /\ agentSettings = DefaultSettings
    /\ clientBuiltFrom = NoClientArgs

NoDelivery == [emitted |-> FALSE, registered |-> <<>>, called |-> <<>>, threw |-> FALSE]

\* private handlers: OGAgentEventHandler[] = []
EmitIdle ==
    /\ handlers = <<>>
    /\ delivery = NoDelivery

NoWatchEvent == [handled |-> FALSE, type |-> ""]

WatchIdle ==
    /\ changedPath = <<>>
    /\ watchEvent = NoWatchEvent
    /\ agentDid = <<>>

\* Thousandths of a millisecond: every backoff value below the cap has at
\* most three decimals.
Scale == 1000

\* private backoffMs = 800
InitialBackoffMs == 800

\* Math.min(..., 15_000)
MaxBackoffMs == 15000

NoSockets == [connecting |-> 0, open |-> 0, closing |-> 0]

NoDelays == [previous |-> 0, last |-> 0]

\* new GatewayClient(opts)
GwIdle ==
    /\ gwClosed = FALSE
    /\ gwWs = "null"
    /\ orphans = NoSockets
    /\ reconnectTimers = 0
    /\ backoffMs = InitialBackoffMs * Scale
    /\ delays = NoDelays

NoMessage == [type |-> "none"]

\* OGApp's constructor: configured = false, moltbotInstalled = false,
\* assessment = null.
NewDashboard == [configured |-> FALSE, moltbotInstalled |-> FALSE, assessment |-> NoAssessment]

StatusIdle ==
    /\ openclawDir = FALSE
    /\ wire = <<>>
    /\ dashboard = NewDashboard
    /\ handled = NoMessage

AgentIdle ==
    /\ openclawState = NoConfig
    /\ agentApiKey = ""
    /\ agentLlmClient = "null"
    /\ lastAssessment = NoAssessment
    /\ scans = <<>>
    /\ quickResult = NoQuickCheck
    /\ analysis = NoAnalysis

(***************************************************************************)
(* SpecDetect: one call of OGLLMClient.detect.                             *)
(***************************************************************************)
Requests ==
    {Request(t, c) : t \in DetectionTypes \cup {UnknownType} \cup InheritedKeys,
                     c \in ContextKinds}

DetectInit ==
    /\ \E request \in Requests :
         detectCall = [phase |-> "called", request |-> request, issued |-> FALSE,
                       reply |-> NoReply, outcome |-> NoOutcome]
    /\ BatchIdle /\ HooksIdle /\ ScoreIdle /\ AgentIdle /\ SnapIdle /\ PluginIdle
    /\ LifeIdle /\ ConfigIdle /\ EmitIdle /\ WatchIdle /\ GwIdle /\ StatusIdle

\* detect up to its await: the prompt lookup, the user message, the remote
\* request; a throw before the try block rejects the promise.
DetectStart ==
    /\ detectCall.phase = "called"
    /\ detectCall' =
         IF issuesRemoteCall(detectCall.request)
         THEN [detectCall EXCEPT !.phase = "awaiting", !.issued = TRUE]
         ELSE [detectCall EXCEPT !.phase = "settled",
                                 !.outcome = detect(detectCall.request, NoReply)]
    /\ UNCHANGED <<batchVars, hookVars, scoreVars, agentVars, snapVars, pluginVars, lifeVars,
                   configVars, emitVars, watchVars, gwVars, statusVars>>

\* The remote call settles and detect runs to its return.
DetectRemoteReply ==
    /\ detectCall.phase = "awaiting"
    /\ \E reply \in Replies :
         detectCall' = [detectCall EXCEPT !.phase = "settled", !.reply = reply,
                                          !.outcome = detect(detectCall.request, reply)]
    /\ UNCHANGED <<batchVars, hookVars, scoreVars, agentVars, snapVars, pluginVars, lifeVars,
                   configVars, emitVars, watchVars, gwVars, statusVars>>

DetectNext == DetectStart \/ DetectRemoteReply

SpecDetect == DetectInit /\ [][DetectNext]_vars

\* C4: every DetectionResult the client produces has isRisk = true only with
\* a riskLevel other than none, and riskLevel = none only with isRisk = false.
C4_RiskImpliesLevel ==
    detectCall.outcome.status = "resolved" =>
        /\ (detectCall.outcome.value.isRisk => detectCall.outcome.value.riskLevel # "none")
        /\ (detectCall.outcome.value.riskLevel = "none" => ~detectCall.outcome.value.isRisk)

C24_UnknownTypeFailsLoudly ==
    detectCall.request.type \notin DetectionTypes =>
        /\ ~detectCall.issued
        /\ detectCall.phase # "awaiting"
        /\ detectCall.phase = "settled" =>
              /\ detectCall.outcome.status = "rejected"
              /\ detectCall.outcome.error = "Unknown detection type"
              /\ detectCall.outcome.value = NoResult

(***************************************************************************)
(* SpecBatch: one call of OGLLMClient.detectBatch,                         *)
(*   Promise.all(requests.map((req) => this.detect(req))).                 *)
(***************************************************************************)
BatchRequests ==
    {Request(t, c) : t \in {"pii", "credentials", UnknownType}, c \in ContextKinds}

BatchReplies ==
    {FailureReply("reject"), FailureReply("nojson"),
     JsonReply("true", "high", <<90>>), JsonReply("false", "none", <<0>>),
     JsonReply("true", "absent", <<>>)}

Awaiting == [status |-> "awaiting", error |-> "", value |-> NoResult]

\* The values in the order the remote calls completed.
ValuesInCompletionOrder(s, done) == [k \in DOMAIN done |-> s[done[k]].value]

\* The value Promise.all resolves with: the promises' values by index.
ValuesInRequestOrder(s, done) == [i \in DOMAIN s |-> s[i].value]

\* Promise.all over the detect promises: rejected as soon as one of them is,
\* resolved once all are.
PromiseAll(s, done) ==
    IF \E i \in DOMAIN s : s[i].status = "rejected"
    THEN [status |-> "rejected", value |-> <<>>]
    ELSE IF \A i \in DOMAIN s : s[i].status = "resolved"
    THEN [status |-> "resolved", value |-> ValuesInRequestOrder(s, done)]
    ELSE [status |-> "pending", value |-> <<>>]

BatchInit ==
    /\ requests \in SeqsUpTo(BatchRequests, MaxBatch)
    /\ slots = <<>>
    /\ replies = <<>>
    /\ completed = <<>>
    /\ batch = [status |-> "called", value |-> <<>>]
    /\ DetectIdle /\ HooksIdle /\ ScoreIdle /\ AgentIdle /\ SnapIdle /\ PluginIdle
    /\ LifeIdle /\ ConfigIdle /\ EmitIdle /\ WatchIdle /\ GwIdle /\ StatusIdle

\* detectBatch up to its await: every detect call runs to its own await (or
\* throws, which rejects its promise), then Promise.all reacts.
BatchStart ==
    /\ batch.status = "called"
    /\ slots' = [i \in DOMAIN requests |->
                   IF issuesRemoteCall(requests[i]) THEN Awaiting
                   ELSE detect(requests[i], NoReply)]
    /\ replies' = [i \in DOMAIN requests |-> NoReply]
    /\ batch' = PromiseAll(slots', completed)
    /\ UNCHANGED <<requests, completed, detectVars, hookVars, scoreVars, agentVars,
                   snapVars, pluginVars, lifeVars, configVars, emitVars, watchVars, gwVars,
                   statusVars>>

\* The remote call of request i settles (in any order among the calls in
\* flight); its detect promise settles and Promise.all reacts.  A batch that
\* has rejected stays rejected.
BatchRemoteReply ==
    /\ batch.status \in {"pending", "rejected"}
    /\ \E i \in DOMAIN slots, reply \in BatchReplies :
         /\ slots[i].status = "awaiting"
         /\ slots' = [slots EXCEPT ![i] = detect(requests[i], reply)]
         /\ replies' = [replies EXCEPT ![i] = reply]
         /\ completed' = Append(completed, i)
    /\ batch' = IF batch.status = "rejected" THEN batch
                ELSE PromiseAll(slots', completed')
    /\ UNCHANGED <<requests, detectVars, hookVars, scoreVars, agentVars,
                   snapVars, pluginVars, lifeVars, configVars, emitVars, watchVars, gwVars,
                   statusVars>>

BatchNext == BatchStart \/ BatchRemoteReply

SpecBatch == BatchInit /\ [][BatchNext]_vars

\* The i-th entry is the result for the i-th request: it carries that
\* request's type and reflects the reply that request's remote call received.
EntryIsResultOf(entry, request, reply) ==
    /\ entry.type = request.type
    /\ entry.isRisk = Truthy(reply.isRisk)
    /\ entry.riskLevel = RiskLevelOrNone(reply.riskLevel)
    /\ entry.confidence = ConfidenceOrZero(reply.confidence)
    /\ entry.details = (CASE reply.kind \in {"reject", "malformed"} -> "error"
                          [] reply.kind \in {"nojson", "badjson"} -> "parseError"
                          [] OTHER -> "parsed")

BatchSettled == \A i \in DOMAIN slots : slots[i].status # "awaiting"

channelTypes == <<"telegram", "discord", "slack", "whatsapp", "signal", "imessage">>

\* state.config[channel]: absent, an object, an object with enabled: false,
\* or a value that is no object.
ChannelValues == {"absent", "enabled", "disabled", "scalar"}

\* state.config.tools.mcp: absent (or tools absent), no array, or an array.
McpValues ==
    {[kind |-> k, len |-> 0] : k \in {"absent", "scalar"}}
    \cup {[kind |-> "array", len |-> n] : n \in 0..MaxMcp}

\* state.config of the snapshot: null (no or unparsable openclaw.json) or the
\* parsed object.  The object is whatever JSON the host wrote: besides the
\* keys calculateBlastRadius reads it can declare enabled skills and
\* file-access grants, given here by their number.
HostConfigs ==
    {NoConfig}
    \cup {[present |-> TRUE, channels |-> ch, mcp |-> m, skills |-> s, fileAccess |-> f] :
            ch \in [Range(channelTypes) -> ChannelValues], m \in McpValues,
            s \in 0..MaxSkills, f \in 0..MaxGrants}

\* The channel loop: one connection per channel whose config is an object
\* with enabled !== false.
RECURSIVE PushConnections(_, _)
PushConnections(config, i) ==
    IF i > Len(channelTypes) THEN <<>>
    ELSE (IF config.channels[channelTypes[i]] = "enabled"
          THEN <<[type |-> "messaging", name |-> channelTypes[i], riskLevel |-> "medium"]>>
          ELSE <<>>)
         \o PushConnections(config, i + 1)

\* The tools.mcp loop: one entry per element of the array.
PushMcpTools(config) ==
    IF config.mcp.kind = "array"
    THEN [k \in 1..config.mcp.len |-> [name |-> "mcp", riskLevel |-> "medium"]]
    ELSE <<>>

ConnectionWeight == 15
McpToolWeight == 10
SkillWeight == 5
FileAccessWeight == 20
ScoreCap == 100

totalScore(report) ==
    Min(ScoreCap,
        Len(report.connections) * ConnectionWeight
        + Len(report.mcpTools) * McpToolWeight
        + Len(report.skills) * SkillWeight
        + Len(report.fileAccess) * FileAccessWeight)

calculateBlastRadius(config) ==
    IF ~config.present THEN NoReport
    ELSE LET filled == [NoReport EXCEPT !.connections = PushConnections(config, 1),
                                        !.mcpTools = PushMcpTools(config)]
         IN  [filled EXCEPT !.totalScore = totalScore(filled)]

HighWeight == 40
MediumWeight == 20
LowWeight == 10

\* The loop body without its if (detection.isRisk).
weightIgnoringIsRisk(detection) ==
    CASE detection.riskLevel = "high" -> 40
      [] detection.riskLevel = "medium" -> 20
      [] detection.riskLevel = "low" -> 10
      [] OTHER -> 0

\* What one detection adds to threatScore:
\* if (detection.isRisk) switch (detection.riskLevel) { ... }.
weight(detection) ==
    IF ~detection.isRisk THEN 0
    ELSE CASE detection.riskLevel = "high" -> HighWeight
           [] detection.riskLevel = "medium" -> MediumWeight
           [] detection.riskLevel = "low" -> LowWeight
           [] OTHER -> 0

\* The for loop over detections.
RECURSIVE sumWeights(_, _)
sumWeights(detections, i) ==
    IF i > Len(detections) THEN 0
    ELSE weight(detections[i]) + sumWeights(detections, i + 1)

threatScore(detections) == Min(ScoreCap, sumWeights(detections, 1))

\* Math.round of a value given in tenths: the nearest integer, a half going
\* up.  threatScore * 0.6 + totalScore * 0.4 is (6T + 4B) / 10, an even number
\* of tenths: it is never a half, and the error of the floating-point
\* products is far below the tenth that separates it from one.
MathRound(tenths) == (tenths + 5) \div 10

HighThreshold == 70
MediumThreshold == 40
LowThreshold == 10

levelOf(combinedScore) ==
    IF combinedScore >= HighThreshold THEN "high"
    ELSE IF combinedScore >= MediumThreshold THEN "medium"
    ELSE IF combinedScore >= LowThreshold THEN "low"
    ELSE "none"

\* The two weights exchanged: threatScore * 0.4 + totalScore * 0.6.
calculateRiskAssessmentSwapped(detections, blastRadius) ==
    LET t == threatScore(detections)
        combinedScore == MathRound(t * 4 + blastRadius.totalScore * 6)
    IN  [level |-> levelOf(combinedScore), score |-> combinedScore,
         blastRadiusScore |-> blastRadius.totalScore, threatScore |-> t,
         detections |-> detections]

calculateRiskAssessment(detections, blastRadius) ==
    LET t == threatScore(detections)
        combinedScore == MathRound(t * 6 + blastRadius.totalScore * 4)
    IN  [level |-> levelOf(combinedScore), score |-> combinedScore,
         blastRadiusScore |-> blastRadius.totalScore, threatScore |-> t,
         detections |-> detections]

(***************************************************************************)
(* SpecScore: the scoring steps of a scan, on a host snapshot and a list   *)
(* of detections.                                                          *)
(***************************************************************************)
ScoredLevels == {"high", "medium", "low", "none"}

ScoredDetections ==
    {DetectionResult("config-audit", r, l, 0, "parsed") :
        r \in BOOLEAN, l \in ScoredLevels}

ScoreInit ==
    /\ \E config \in HostConfigs :
         scanInput = [phase |-> "snapshot", config |-> config, report |-> NoReport]
    /\ assessment = NoAssessment
    /\ DetectIdle /\ BatchIdle /\ HooksIdle /\ AgentIdle /\ SnapIdle /\ PluginIdle
    /\ LifeIdle /\ ConfigIdle /\ EmitIdle /\ WatchIdle /\ GwIdle /\ StatusIdle

\* const blastRadius = this.calculateBlastRadius(state)
CalculateBlastRadius ==
    /\ scanInput.phase = "snapshot"
    /\ scanInput' = [phase |-> "radius", config |-> NoConfig,
                     report |-> calculateBlastRadius(scanInput.config)]
    /\ UNCHANGED <<assessment, detectVars, batchVars, hookVars, agentVars,
                   snapVars, pluginVars, lifeVars, configVars, emitVars, watchVars, gwVars,
                   statusVars>>

\* const assessment = this.calculateRiskAssessment(detections, blastRadius)
CalculateRiskAssessment ==
    /\ scanInput.phase = "radius"
    /\ \E detections \in SeqsUpTo(ScoredDetections, MaxDetections) :
         assessment' = calculateRiskAssessment(detections, scanInput.report)
    /\ scanInput' = [phase |-> "assessed", config |-> NoConfig, report |-> NoReport]
    /\ UNCHANGED <<detectVars, batchVars, hookVars, agentVars, snapVars, pluginVars,
                   lifeVars, configVars, emitVars, watchVars, gwVars, statusVars>>

ScoreNext == CalculateBlastRadius \/ CalculateRiskAssessment

SpecScore == ScoreInit /\ [][ScoreNext]_vars

Count(detections, isRisk, level) ==
    Cardinality({i \in DOMAIN detections :
                    detections[i].isRisk = isRisk /\ detections[i].riskLevel = level})

\* C9: score is the integer nearest to 0.6*T + 0.4*B, within 0..100, and level
\* follows the thresholds 70, 40, 10.
C9_CompositeScore ==
    scanInput.phase = "assessed" =>
        LET T == assessment.threatScore
            B == assessment.blastRadiusScore
            tenths == 6 * T + 4 * B
        IN  /\ T \in 0..100 /\ B \in 0..100
            /\ assessment.score \in 0..100
            /\ 10 * assessment.score - 5 <= tenths
            /\ tenths < 10 * assessment.score + 5
            /\ assessment.level = "high" <=> assessment.score >= 70
            /\ assessment.level = "medium" <=> (assessment.score >= 40 /\ assessment.score < 70)
            /\ assessment.level = "low" <=> (assessment.score >= 10 /\ assessment.score < 40)
            /\ assessment.level = "none" <=> assessment.score < 10

C9_Witness ==
    /\ scanInput.phase = "assessed"
    /\ assessment.threatScore = 40
    /\ assessment.blastRadiusScore = 55
    /\ assessment.score = 46
    /\ assessment.level = "medium"

\* C10: threatScore is min(100, 40*#high + 20*#medium + 10*#low) counted over
\* the detections with isRisk = true only, and lies within 0..100.
C10_ThreatScore ==
    scanInput.phase = "assessed" =>
        LET d == assessment.detections
            sum == 40 * Count(d, TRUE, "high") + 20 * Count(d, TRUE, "medium")
                   + 10 * Count(d, TRUE, "low")
        IN  /\ assessment.threatScore = (IF sum > 100 THEN 100 ELSE sum)
            /\ assessment.threatScore \in 0..100

C10_Witness ==
    /\ Len(assessment.detections) = 3
    /\ scanInput.phase = "assessed"
    /\ Count(assessment.detections, TRUE, "high") = 3
    /\ assessment.threatScore = 100

\* What the snapshot holds: its enabled connections, its registered tool
\* integrations, its enabled skills and its file-access grants.
EnabledConnections(config) ==
    IF config.present
    THEN Cardinality({c \in Range(channelTypes) : config.channels[c] = "enabled"})
    ELSE 0

ToolIntegrations(config) ==
    IF config.present /\ config.mcp.kind = "array" THEN config.mcp.len ELSE 0

\* C11: the blast radius computed from a snapshot is
\* min(100, 15*connections + 10*tool integrations + 5*skills + 20*file-access
\* grants), every count taken from the snapshot (three connections, two tool
\* integrations and one grant give 85).
C11_ExposureFromSnapshot ==
    [][scanInput.phase = "snapshot" /\ scanInput'.phase = "radius" =>
         LET config == scanInput.config
             sum == 15 * EnabledConnections(config) + 10 * ToolIntegrations(config)
                    + 5 * config.skills + 20 * config.fileAccess
         IN  scanInput'.report.totalScore = (IF sum > 100 THEN 100 ELSE sum)]_vars

(***************************************************************************)
(* The plugin: register() and its six hook handlers.                       *)
(***************************************************************************)
INPUT_DETECTION_TYPES == <<"prompt-injection", "system-override", "web-attacks">>

OUTPUT_DETECTION_TYPES == <<"credentials", "pii", "nsfw", "confidential">>

TOOL_DETECTION_TYPES == <<"malicious-code", "tool-call">>

HIGH_RISK_TOOLS ==
    {"bash", "shell", "execute", "run_command", "write_file", "delete_file",
     "http_request", "fetch", "curl"}

HookNames ==
    {"message_received", "before_agent_start", "message_sending",
     "before_tool_call", "after_tool_call", "agent_end"}

\* The fragments the host's messages and tool parameters are built from.
HookFragments == {"text", "act_as", "sk-"}

Contents == SeqsUpTo(HookFragments, MaxContentLen)

ToolNames == {"bash", "read_file"}

\* event.params: an object JSON.stringify serializes, or one it throws on.
ParamsKinds == {"object", "cyclic"}

\* JSON.stringify(params) of a serializable object: its text between braces.
JSONstringify(text) == <<"{">> \o text \o <<"}">>

\* What the remote capability may answer to a hook's detection request.
HookReplies ==
    {FailureReply("reject"), FailureReply("nojson"),
     JsonReply("true", "high", <<90>>), JsonReply("true", "medium", <<90>>),
     JsonReply("false", "none", <<0>>), JsonReply("true", "absent", <<>>),
     JsonReply("false", "high", <<90>>)}

\* One line of audit.jsonl: the timestamp writeAuditEntry adds and the fields
\* of the entry the handler passes; "absent" is a field the entry lacks.
AuditEntry(hook, action, reason, tier, patterns, detections) ==
    [timestamp |-> TRUE, hook |-> hook, action |-> action, reason |-> reason,
     tier |-> tier, patterns |-> patterns, detections |-> detections]

\* writeAuditEntry with its try block removed would throw; with it, a failed
\* append leaves the file as it was.
writeAuditEntry(log, entry, writable) ==
    IF writable THEN Append(log, entry) ELSE log

\* getLLMClient(): the client held, else a new one when an API key is set.
getLLMClient(held, key) ==
    IF held = "client" \/ key # "" THEN "client" ELSE "null"

\* results.filter((r) => r.isRisk)
RECURSIVE filterIsRisk(_, _)
filterIsRisk(results, i) ==
    IF i > Len(results) THEN <<>>
    ELSE (IF results[i].isRisk THEN <<results[i]>> ELSE <<>>)
         \o filterIsRisk(results, i + 1)

\* A medium verdict blocks as well.
someHighOrMedium(threats) ==
    \E i \in DOMAIN threats : threats[i].riskLevel \in {"high", "medium"}

\* threats.some((t) => t.riskLevel === "high")
someHigh(threats) == \E i \in DOMAIN threats : threats[i].riskLevel = "high"

\* message_received returning a cancel result on a high verdict.
messageReceivedCancels(threats) ==
    IF someHigh(threats) THEN "cancel" ELSE "void"

\* What message_received returns after its detection: the handler has no
\* return statement with a value.
messageReceivedReturn(threats) == "void"

\* threats.map((t) => ({type, riskLevel, confidence}))
detectionsOf(threats) ==
    [i \in DOMAIN threats |->
        [type |-> threats[i].type, riskLevel |-> threats[i].riskLevel,
         confidence |-> threats[i].confidence]]

\* client.detectBatch(types.map((type) => ({type, content}))) given the reply
\* to each request.
detectBatch(types, answers) ==
    PromiseAll([i \in DOMAIN types |-> detect(Request(types[i], "absent"), answers[i])],
               [i \in DOMAIN types |-> i])

\* The remote tier is entered whatever quick-check found.
skipsRemoteTierWithoutClient(client, quick) == client = "null"

\* message_received: if (!client || quick.hasObviousRisk) return
skipsRemoteTier(client, quick) == client = "null" \/ quick.hasObviousRisk

\* Every tool call of a configured plugin is deep-scanned.
skipsDeepScanWithoutClient(client, toolName) == client = "null"

\* if (!client || !isHighRisk), isHighRisk being HIGH_RISK_TOOLS.has(toolName)
skipsDeepScan(client, toolName) ==
    client = "null" \/ toolName \notin HIGH_RISK_TOOLS

MessageEvent(hook, content) ==
    [hook |-> hook, content |-> content, toolName |-> "", params |-> "absent"]

ToolEvent(hook, toolName, params, content) ==
    [hook |-> hook, content |-> content, toolName |-> toolName, params |-> params]

\* A failed append to the audit file makes the handler's promise reject.
ReturnsUnlessAuditFailed(result) ==
    /\ pc' = IF auditWritable' THEN "returned" ELSE "rejected"
    /\ hookResult' = IF auditWritable' THEN result ELSE "none"
    /\ remoteCalls' = 0
    /\ verdicts' = <<>>

\* The handler runs to its return.
Returns(result) ==
    /\ pc' = "returned"
    /\ hookResult' = result
    /\ remoteCalls' = 0
    /\ verdicts' = <<>>

\* The handler suspends at await client.detectBatch(...), n requests issued.
Awaits(n) ==
    /\ pc' = "awaiting"
    /\ hookResult' = "none"
    /\ remoteCalls' = n
    /\ verdicts' = <<>>

\* The handler's promise rejects.
Rejects ==
    /\ pc' = "rejected"
    /\ hookResult' = "none"
    /\ remoteCalls' = 0
    /\ verdicts' = <<>>

\* State after plugin.register(api): the six handlers are registered, no
\* handler runs, the lazy client is not created yet.
\* { priority: -100 }
HookPriority == -100

\* register with the last api.on call left out.
registerWithoutAgentEnd(registered) ==
    registered \o
    <<[hookName |-> "message_received", priority |-> HookPriority],
      [hookName |-> "before_agent_start", priority |-> HookPriority],
      [hookName |-> "message_sending", priority |-> HookPriority],
      [hookName |-> "before_tool_call", priority |-> HookPriority],
      [hookName |-> "after_tool_call", priority |-> HookPriority]>>

\* register(api): the six api.on calls, in source order.
register(registered) ==
    registered \o
    <<[hookName |-> "message_received", priority |-> HookPriority],
      [hookName |-> "before_agent_start", priority |-> HookPriority],
      [hookName |-> "message_sending", priority |-> HookPriority],
      [hookName |-> "before_tool_call", priority |-> HookPriority],
      [hookName |-> "after_tool_call", priority |-> HookPriority],
      [hookName |-> "agent_end", priority |-> HookPriority]>>

HooksInit ==
    /\ apiKey \in {"", "og-key"}
    /\ llmClient = "null"
    /\ pc = "idle"
    /\ event = NoEvent
    /\ auditWritable = TRUE
    /\ auditLog = <<>>
    /\ remoteCalls = 0
    /\ verdicts = <<>>
    /\ hookResult = "none"
    /\ registrations = register(<<>>)
    /\ DetectIdle /\ BatchIdle /\ ScoreIdle /\ AgentIdle /\ SnapIdle /\ LifeIdle
    /\ ConfigIdle /\ EmitIdle /\ WatchIdle /\ GwIdle /\ StatusIdle

\* message_received, up to its return or its await.
MessageReceived ==
    /\ pc = "idle"
    /\ \E content \in Contents, writable \in BOOLEAN :
         LET quick == quickCheck(content)
             client == getLLMClient(llmClient, apiKey)
         IN  /\ event' = MessageEvent("message_received", content)
             /\ auditWritable' = writable
             /\ IF content = <<>>
                THEN /\ auditLog' = <<>>
                     /\ llmClient' = llmClient
                     /\ Returns("void")
                ELSE /\ auditLog' =
                          IF quick.hasObviousRisk
                          THEN writeAuditEntry(<<>>,
                                   AuditEntry("message_received", "alert", "absent",
                                              "quickCheck", quick.patterns, <<>>),
                                   writable)
                          ELSE <<>>
                     /\ llmClient' = client
                     /\ IF skipsRemoteTier(client, quick)
                        THEN Returns("void")
                        ELSE Awaits(Len(INPUT_DETECTION_TYPES))
    /\ UNCHANGED <<apiKey, detectVars, batchVars, scoreVars, agentVars,
                   snapVars, pluginVars, lifeVars, configVars, emitVars, watchVars, gwVars,
                   statusVars>>

\* message_received after detectBatch settles.
MessageReceivedResumes ==
    /\ pc = "awaiting"
    /\ event.hook = "message_received"
    /\ \E answers \in [DOMAIN INPUT_DETECTION_TYPES -> HookReplies] :
         LET results == detectBatch(INPUT_DETECTION_TYPES, answers)
             threats == filterIsRisk(results.value, 1)
         IN  /\ verdicts' = results.value
             /\ auditLog' =
                  IF results.status = "resolved" /\ Len(threats) > 0
                  THEN writeAuditEntry(auditLog,
                           AuditEntry("message_received", "alert", "absent", "llm",
                                      <<>>, detectionsOf(threats)),
                           auditWritable)
                  ELSE auditLog
             /\ pc' = "returned"
             /\ hookResult' = messageReceivedReturn(threats)
    /\ UNCHANGED <<apiKey, llmClient, event, auditWritable, remoteCalls,
                   detectVars, batchVars, scoreVars, agentVars, snapVars, pluginVars,
                   lifeVars, configVars, emitVars, watchVars, gwVars, statusVars>>

\* before_agent_start.
BeforeAgentStart ==
    /\ pc = "idle"
    /\ \E writable \in BOOLEAN :
         /\ event' = MessageEvent("before_agent_start", <<>>)
         /\ auditWritable' = writable
         /\ auditLog' = writeAuditEntry(<<>>,
                            AuditEntry("before_agent_start", "inject_context", "absent",
                                       "absent", <<>>, <<>>),
                            writable)
         /\ Returns("prependContext")
    /\ UNCHANGED <<apiKey, llmClient, detectVars, batchVars, scoreVars, agentVars,
                   snapVars, pluginVars, lifeVars, configVars, emitVars, watchVars, gwVars,
                   statusVars>>

\* message_sending, up to its return or its await.
MessageSending ==
    /\ pc = "idle"
    /\ \E content \in Contents, writable \in BOOLEAN :
         LET quick == quickCheck(content)
             client == getLLMClient(llmClient, apiKey)
         IN  /\ event' = MessageEvent("message_sending", content)
             /\ auditWritable' = writable
             /\ IF content = <<>>
                THEN /\ auditLog' = <<>>
                     /\ llmClient' = llmClient
                     /\ Returns("void")
                ELSE IF quick.hasObviousRisk /\ hasCredentials(quick)
                THEN /\ auditLog' = writeAuditEntry(<<>>,
                                        AuditEntry("message_sending", "block",
                                                   "credential_leakage", "absent",
                                                   quick.patterns, <<>>),
                                        writable)
                     /\ llmClient' = llmClient
                     /\ Returns("cancel")
                ELSE /\ auditLog' =
                          IF quick.hasObviousRisk
                          THEN writeAuditEntry(<<>>,
                                   AuditEntry("message_sending", "alert", "absent",
                                              "quickCheck", quick.patterns, <<>>),
                                   writable)
                          ELSE <<>>
                     /\ llmClient' = client
                     /\ IF client = "null"
                        THEN Returns("void")
                        ELSE Awaits(Len(OUTPUT_DETECTION_TYPES))
    /\ UNCHANGED <<apiKey, detectVars, batchVars, scoreVars, agentVars,
                   snapVars, pluginVars, lifeVars, configVars, emitVars, watchVars, gwVars,
                   statusVars>>

\* message_sending after detectBatch settles.
MessageSendingResumes ==
    /\ pc = "awaiting"
    /\ event.hook = "message_sending"
    /\ \E answers \in [DOMAIN OUTPUT_DETECTION_TYPES -> HookReplies] :
         LET results == detectBatch(OUTPUT_DETECTION_TYPES, answers)
             threats == filterIsRisk(results.value, 1)
             highRisk == someHigh(threats)
             found == results.status = "resolved" /\ Len(threats) > 0
         IN  /\ verdicts' = results.value
             /\ auditLog' =
                  IF found
                  THEN writeAuditEntry(auditLog,
                           AuditEntry("message_sending",
                                      IF highRisk THEN "block" ELSE "alert",
                                      "absent", "llm", <<>>, detectionsOf(threats)),
                           auditWritable)
                  ELSE auditLog
             /\ pc' = "returned"
             /\ hookResult' = IF found /\ highRisk THEN "cancel" ELSE "void"
    /\ UNCHANGED <<apiKey, llmClient, event, auditWritable, remoteCalls,
                   detectVars, batchVars, scoreVars, agentVars, snapVars, pluginVars,
                   lifeVars, configVars, emitVars, watchVars, gwVars, statusVars>>

\* before_tool_call, up to its return, its await, or the throw of
\* JSON.stringify(params).
BeforeToolCall ==
    /\ pc = "idle"
    /\ \E toolName \in ToolNames, params \in ParamsKinds,
          content \in Contents, writable \in BOOLEAN :
         LET paramsStr == JSONstringify(content)
             quick == quickCheck(paramsStr)
             client == getLLMClient(llmClient, apiKey)
         IN  /\ event' = ToolEvent("before_tool_call", toolName, params, content)
             /\ auditWritable' = writable
             /\ IF params = "cyclic"
                THEN /\ auditLog' = <<>>
                     /\ llmClient' = llmClient
                     /\ Rejects
                ELSE IF quick.hasObviousRisk /\ hasCredentials(quick)
                THEN /\ auditLog' = writeAuditEntry(<<>>,
                                        AuditEntry("before_tool_call", "block",
                                                   "credential_in_params", "absent",
                                                   quick.patterns, <<>>),
                                        writable)
                     /\ llmClient' = llmClient
                     /\ Returns("block")
                ELSE /\ llmClient' = client
                     /\ IF skipsDeepScan(client, toolName)
                        THEN /\ auditLog' = writeAuditEntry(<<>>,
                                                AuditEntry("before_tool_call", "allow",
                                                           "absent", "notDeepScanned",
                                                           <<>>, <<>>),
                                                writable)
                             /\ Returns("void")
                        ELSE /\ auditLog' = <<>>
                             /\ Awaits(Len(TOOL_DETECTION_TYPES))
    /\ UNCHANGED <<apiKey, detectVars, batchVars, scoreVars, agentVars,
                   snapVars, pluginVars, lifeVars, configVars, emitVars, watchVars, gwVars,
                   statusVars>>

\* before_tool_call after detectBatch settles.
BeforeToolCallResumes ==
    /\ pc = "awaiting"
    /\ event.hook = "before_tool_call"
    /\ \E answers \in [DOMAIN TOOL_DETECTION_TYPES -> HookReplies] :
         LET results == detectBatch(TOOL_DETECTION_TYPES, answers)
             threats == filterIsRisk(results.value, 1)
             highRisk == someHigh(threats)
             found == results.status = "resolved" /\ Len(threats) > 0
         IN  /\ verdicts' = results.value
             /\ auditLog' =
                  IF found
                  THEN writeAuditEntry(auditLog,
                           AuditEntry("before_tool_call",
                                      IF highRisk THEN "block" ELSE "alert",
                                      "absent", "deepScanned", <<>>,
                                      detectionsOf(threats)),
                           auditWritable)
                  ELSE auditLog
             /\ pc' = "returned"
             /\ hookResult' = IF found /\ highRisk THEN "block" ELSE "void"
    /\ UNCHANGED <<apiKey, llmClient, event, auditWritable, remoteCalls,
                   detectVars, batchVars, scoreVars, agentVars, snapVars, pluginVars,
                   lifeVars, configVars, emitVars, watchVars, gwVars, statusVars>>

\* after_tool_call: the entry has no action field.
AfterToolCall ==
    /\ pc = "idle"
    /\ \E toolName \in ToolNames, writable \in BOOLEAN :
         /\ event' = ToolEvent("after_tool_call", toolName, "object", <<>>)
         /\ auditWritable' = writable
         /\ auditLog' = writeAuditEntry(<<>>,
                            AuditEntry("after_tool_call", "absent", "absent", "absent",
                                       <<>>, <<>>),
                            writable)
         /\ Returns("void")
    /\ UNCHANGED <<apiKey, llmClient, detectVars, batchVars, scoreVars, agentVars,
                   snapVars, pluginVars, lifeVars, configVars, emitVars, watchVars, gwVars,
                   statusVars>>

\* agent_end: the entry has no action field.
AgentEnd ==
    /\ pc = "idle"
    /\ \E writable \in BOOLEAN :
         /\ event' = MessageEvent("agent_end", <<>>)
         /\ auditWritable' = writable
         /\ auditLog' = writeAuditEntry(<<>>,
                            AuditEntry("agent_end", "absent", "absent", "absent",
                                       <<>>, <<>>),
                            writable)
         /\ Returns("void")
    /\ UNCHANGED <<apiKey, llmClient, detectVars, batchVars, scoreVars, agentVars,
                   snapVars, pluginVars, lifeVars, configVars, emitVars, watchVars, gwVars,
                   statusVars>>

\* The host takes the handler's result (or its rejection) and goes on; the
\* next invocation starts with nothing appended and nothing issued.
HostContinues ==
    /\ pc \in {"returned", "rejected"}
    /\ pc' = "idle"
    /\ event' = NoEvent
    /\ auditWritable' = TRUE
    /\ auditLog' = <<>>
    /\ remoteCalls' = 0
    /\ verdicts' = <<>>
    /\ hookResult' = "none"
    /\ UNCHANGED <<apiKey, llmClient, detectVars, batchVars, scoreVars, agentVars,
                   snapVars, pluginVars, lifeVars, configVars, emitVars, watchVars, gwVars,
                   statusVars>>

HooksNext ==
    \/ MessageReceived \/ MessageReceivedResumes
    \/ BeforeAgentStart
    \/ MessageSending \/ MessageSendingResumes
    \/ BeforeToolCall \/ BeforeToolCallResumes
    \/ AfterToolCall
    \/ AgentEnd
    \/ HostContinues

SpecHooks == HooksInit /\ [][HooksNext]_vars

\* A credential-shaped substring occurs in the text.
CredentialIn(text) ==
    \E i \in DOMAIN text : \E k \in DOMAIN credentialPatterns : text[i] = credentialPatterns[k]

Invoked(hook) == pc \in {"awaiting", "returned", "rejected"} /\ event.hook = hook

Escalated == pc = "returned" /\ remoteCalls > 0

HighVerdict == \E i \in DOMAIN verdicts : verdicts[i].isRisk /\ verdicts[i].riskLevel = "high"

\* C1: a message_sending invocation with non-empty content, or a
\* before_tool_call invocation, whose content (resp. serialized params) holds
\* a credential pattern returns a blocking result and issues no remote
\* request, with or without an API key and for every tool name.
C1_MandatoryBlock ==
    /\ (Invoked("message_sending") /\ CredentialIn(event.content)) =>
          pc = "returned" /\ hookResult = "cancel" /\ remoteCalls = 0
    /\ (Invoked("before_tool_call") /\ event.params = "object"
        /\ CredentialIn(JSONstringify(event.content))) =>
          pc = "returned" /\ hookResult = "block" /\ remoteCalls = 0

C1_Witness ==
    /\ Invoked("before_tool_call")
    /\ event.toolName = "bash"
    /\ llmClient = "client"
    /\ event.content = <<"act_as", "sk-">>
    /\ hookResult = "block"
    /\ remoteCalls = 0

\* C2: a message_sending or before_tool_call invocation that escalated to the
\* remote tier returns a blocking result exactly when some returned verdict
\* has isRisk = true and riskLevel = high, and returns nothing otherwise.
C2_VerdictToAction ==
    /\ (Escalated /\ event.hook = "message_sending") =>
          /\ ~CredentialIn(event.content)
          /\ Len(verdicts) = Len(OUTPUT_DETECTION_TYPES)
          /\ hookResult = (IF HighVerdict THEN "cancel" ELSE "void")
    /\ (Escalated /\ event.hook = "before_tool_call") =>
          /\ ~CredentialIn(JSONstringify(event.content))
          /\ Len(verdicts) = Len(TOOL_DETECTION_TYPES)
          /\ hookResult = (IF HighVerdict THEN "block" ELSE "void")

C2_Witness ==
    /\ Escalated
    /\ event.hook = "message_sending"
    /\ verdicts[1].details = "error"
    /\ verdicts[2].isRisk /\ verdicts[2].riskLevel = "medium"
    /\ ~verdicts[3].isRisk /\ verdicts[3].riskLevel = "high"
    /\ verdicts[4].isRisk /\ verdicts[4].riskLevel = "none"
    /\ hookResult = "void"

C2_WitnessBlock ==
    /\ Escalated
    /\ event.hook = "before_tool_call"
    /\ HighVerdict
    /\ hookResult = "block"

\* C3: message_received returns no value on any path, whatever the content,
\* the quick-check outcome and the remote verdicts.
C3_MessageReceivedVoid ==
    Invoked("message_received") =>
        /\ pc # "rejected"
        /\ pc = "returned" => hookResult = "void"

C3_Witness ==
    /\ Invoked("message_received")
    /\ Escalated
    /\ HighVerdict
    /\ hookResult = "void"

\* C7: no handler's promise rejects, whatever event the host passes.
C7_HandlersNeverReject == pc # "rejected"

DetectionHooks == {"message_received", "message_sending", "before_tool_call"}

\* C8: an invocation of a detection hook that has returned has appended
\* exactly one audit record (stated for a writable audit file and a non-empty
\* message, where nothing but the handler decides the number of records).
C8_ExactlyOneAuditRecord ==
    (/\ pc = "returned"
     /\ event.hook \in DetectionHooks
     /\ auditWritable
     /\ event.hook = "before_tool_call" \/ event.content # <<>>) =>
        Len(auditLog) = 1


\* C16: before_tool_call issues remote requests only for a tool of the
\* high-risk set and with a client; for any other tool it issues none,
\* records the call with action allow (when it is not blocked and the audit
\* file takes the line), and blocks only on a credential in the parameters.
C16_TieredDeepScan ==
    Invoked("before_tool_call") =>
        /\ remoteCalls > 0 =>
              /\ event.toolName \in HIGH_RISK_TOOLS
              /\ llmClient = "client"
              /\ remoteCalls = Len(TOOL_DETECTION_TYPES)
        /\ event.toolName \notin HIGH_RISK_TOOLS =>
              /\ remoteCalls = 0
              /\ pc # "awaiting"
              /\ hookResult = "block" => CredentialIn(event.content)
              /\ (pc = "returned" /\ hookResult # "block" /\ auditWritable) =>
                    /\ Len(auditLog) = 1
                    /\ auditLog[1].action = "allow"
                    /\ auditLog[1].tier = "notDeepScanned"

C16_Witness ==
    /\ Invoked("before_tool_call")
    /\ pc = "returned"
    /\ event.toolName = "read_file"
    /\ event.content = <<"act_as">>
    /\ llmClient = "client"
    /\ remoteCalls = 0
    /\ hookResult = "void"
    /\ Len(auditLog) = 1
    /\ auditLog[1].action = "allow"

\* The handlers with fairness for what the host and the event loop schedule:
\* the host goes on once a handler has settled.  Nothing obliges the remote
\* capability to answer.
SpecHooksLive == HooksInit /\ [][HooksNext]_vars /\ WF_vars(HostContinues)

\* C17: every invocation that has escalated to remote classification
\* eventually returns to the host, even if the remote capability never
\* answers.
C17_EscalatedHookReturns == (pc = "awaiting") ~> (pc = "returned")

FailedVerdict ==
    \E i \in DOMAIN verdicts : verdicts[i].details \in {"error", "parseError"}

\* C18: an invocation that was allowed although a remote detection failed has
\* appended an audit record of its remote stage.
C18_FailOpenIsAudited ==
    (/\ pc = "returned"
     /\ remoteCalls > 0
     /\ FailedVerdict
     /\ hookResult = "void"
     /\ auditWritable)
    => \E k \in DOMAIN auditLog : auditLog[k].tier \in {"llm", "deepScanned"}

\* C19: every audit record holds a timestamp, a hook name and an action out
\* of allow, alert, block, inject_context.
C19_AuditRecordShape ==
    \A k \in DOMAIN auditLog :
        /\ auditLog[k].timestamp
        /\ auditLog[k].hook \in HookNames
        /\ auditLog[k].action \in {"allow", "alert", "block", "inject_context"}

\* What the handler of the event decides, told from the event and the remote
\* verdicts alone.
ExpectedDecision ==
    CASE event.hook = "before_agent_start" -> "prependContext"
      [] event.hook = "message_sending" ->
            IF CredentialIn(event.content) THEN "cancel"
            ELSE IF remoteCalls > 0 /\ HighVerdict THEN "cancel"
            ELSE "void"
      [] event.hook = "before_tool_call" ->
            IF CredentialIn(event.content) THEN "block"
            ELSE IF remoteCalls > 0 /\ HighVerdict THEN "block"
            ELSE "void"
      [] OTHER -> "void"

\* C20: a failed audit append neither makes a handler reject nor changes
\* what it returns: the returned value is the one the event and the verdicts
\* determine, whether or not the line was appended.
C20_AuditFailureHarmless ==
    /\ pc = "rejected" => event.params = "cyclic"
    /\ pc = "returned" => hookResult = ExpectedDecision

C20_Witness ==
    /\ pc = "returned"
    /\ event.hook = "message_sending"
    /\ ~auditWritable
    /\ auditLog = <<>>
    /\ CredentialIn(event.content)
    /\ hookResult = "cancel"

\* An injection phrasing occurs in the text.
InjectionIn(text) ==
    \E i \in DOMAIN text : \E k \in DOMAIN injectionPatterns : text[i] = injectionPatterns[k]

\* C21: at message_received, message_sending and before_tool_call, a content
\* in which quick-check finds a pattern but no credential pattern gets an
\* audit record with action alert that carries the matched patterns.
C21_QuickRiskAlerts ==
    (/\ pc \in {"awaiting", "returned"}
     /\ event.hook \in DetectionHooks
     /\ InjectionIn(event.content)
     /\ ~CredentialIn(event.content)
     /\ auditWritable)
    => \E k \in DOMAIN auditLog :
          /\ auditLog[k].action = "alert"
          /\ auditLog[k].patterns # <<>>

\* C26: a message_received invocation whose content holds any quick-check
\* pattern writes an alert record with the patterns and issues no remote
\* request; it reaches the remote tier only with a clean content and a
\* client.
C26_MessageReceivedQuickAlert ==
    Invoked("message_received") =>
        /\ (InjectionIn(event.content) \/ CredentialIn(event.content)) =>
              /\ pc = "returned"
              /\ remoteCalls = 0
              /\ auditWritable =>
                    /\ Len(auditLog) = 1
                    /\ auditLog[1].action = "alert"
                    /\ auditLog[1].tier = "quickCheck"
                    /\ auditLog[1].patterns = quickCheck(event.content).patterns
                    /\ auditLog[1].patterns # <<>>
        /\ remoteCalls > 0 =>
              /\ ~InjectionIn(event.content)
              /\ ~CredentialIn(event.content)
              /\ event.content # <<>>
              /\ llmClient = "client"

C26_Witness ==
    /\ Invoked("message_received")
    /\ pc = "returned"
    /\ llmClient = "client"
    /\ event.content = <<"text", "act_as">>
    /\ remoteCalls = 0
    /\ Len(auditLog) = 1
    /\ auditLog[1].action = "alert"
    /\ auditLog[1].patterns = <<[family |-> "injection", source |-> "act_as"]>>

\* Before the host calls register.
PluginInit ==
    /\ HooksIdle /\ PluginIdle
    /\ DetectIdle /\ BatchIdle /\ ScoreIdle /\ AgentIdle /\ SnapIdle /\ LifeIdle
    /\ ConfigIdle /\ EmitIdle /\ WatchIdle /\ GwIdle /\ StatusIdle

\* The host calls plugin.register(api) with its plugin config: the client is
\* created lazily, the six handlers are registered.
Register ==
    /\ pc = "unregistered"
    /\ apiKey' \in {"", "og-key"}
    /\ llmClient' = "null"
    /\ pc' = "idle"
    /\ registrations' = register(registrations)
    /\ UNCHANGED <<event, auditWritable, auditLog, remoteCalls, verdicts, hookResult,
                   detectVars, batchVars, scoreVars, agentVars, snapVars, lifeVars,
                   configVars, emitVars, watchVars, gwVars, statusVars>>

PluginNext ==
    \/ Register
    \/ HooksNext

SpecPlugin == PluginInit /\ [][PluginNext]_vars

SixHooks ==
    {"message_received", "before_agent_start", "message_sending",
     "before_tool_call", "after_tool_call", "agent_end"}

\* How many handlers are registered for a hook.
RegisteredFor(hookName) ==
    Cardinality({n \in DOMAIN registrations : registrations[n].hookName = hookName})

\* C27: once register was called, and whatever the handlers did since, exactly
\* the six hooks have a handler, each exactly one, all at priority -100.
C27_SixHooksOnce ==
    pc # "unregistered" =>
        /\ \A hookName \in SixHooks : RegisteredFor(hookName) = 1
        /\ \A n \in DOMAIN registrations :
             /\ registrations[n].hookName \in SixHooks
             /\ registrations[n].priority = -100

C27_Witness ==
    /\ pc = "returned"
    /\ event.hook = "agent_end"
    /\ Len(registrations) = 6
    /\ RegisteredFor("agent_end") = 1

(***************************************************************************)
(* SpecAgent: one OGAgent object.  Its runScan calls (whoever makes them:  *)
(* start, the interval timer, the watcher handler, a caller of the API)    *)
(* overlap at the await of the config-audit detection; updateConfig and    *)
(* quickCheck are synchronous.                                             *)
(***************************************************************************)
HostConfig(enabled, mcpLen, skills, fileAccess) ==
    [present |-> TRUE,
     channels |-> [c \in Range(channelTypes) |->
                      IF c \in enabled THEN "enabled" ELSE "absent"],
     mcp |-> [kind |-> "array", len |-> mcpLen],
     skills |-> skills, fileAccess |-> fileAccess]

\* The host configurations the agent's snapshots are taken of: no (or an
\* unparsable) openclaw.json, a host with three channels, two MCP tools and a
\* file-access grant, and a host with every channel and two MCP tools.
ScanConfigs ==
    {NoConfig,
     HostConfig({"telegram", "discord", "slack"}, 2, 0, 1),
     HostConfig(Range(channelTypes), 2, 0, 0)}

\* What the remote capability answers to the config-audit request.
AgentReplies ==
    {FailureReply("reject"), JsonReply("true", "high", <<90>>),
     JsonReply("true", "low", <<90>>), JsonReply("false", "none", <<0>>)}

AgentKeys == {"", "og-key"}

\* new OGLLMClient(...) if (this.config.apiKey), null otherwise.
clientFor(key) == IF key # "" THEN "client" ELSE "null"

\* What the client held after clientFor(key) was constructed from.
clientArgs(key, settings) ==
    IF key # ""
    THEN [apiKey |-> key, apiBaseUrl |-> settings.apiBaseUrl, model |-> settings.model]
    ELSE NoClientArgs

\* The detections of the previous scan kept in the list of the next one.
detectionsCarriedOver(previous) == previous.detections

\* const detections: DetectionResult[] = [] of a runScan call; previous is
\* this.lastAssessment, which the call does not read.
detectionsAtStart(previous) == <<>>

\* An event handed to emit: its type and, for scan-completed, the assessment
\* it carries and what getLastAssessment() gives a handler during the
\* dispatch.
AgentEvent(type, carried, last) ==
    [type |-> type, assessment |-> carried, lastAssessment |-> last]

\* scan-completed emitted ahead of the assignment to this.lastAssessment.
lastAssessmentStale(previous, made) == previous

\* this.lastAssessment while scan-completed is dispatched: the assignment
\* stands before saveConfig and the emit.
lastAssessmentAtEmit(previous, made) == made

\* Every scan with a client asks for the config-audit detection.
detectsConfigWithClient(client, state) == client # "null"

\* if (this.llmClient && state.config)
detectsConfig(client, state) == client # "null" /\ state.present

NewScan(state) ==
    [status |-> "awaiting", state |-> state, reply |-> NoReply,
     assessment |-> NoAssessment,
     events |-> <<AgentEvent("scan-started", NoAssessment, NoAssessment)>>]

\* runScan after its detections are gathered: the blast radius of the state
\* read at the start of the call, the assessment, this.lastAssessment,
\* saveConfig (saved tells whether it returned or threw) and scan-completed.
completeScan(scan, reply, detections, saved, last) ==
    LET made == calculateRiskAssessment(detections, calculateBlastRadius(scan.state))
    IN  [scan EXCEPT
            !.status = IF saved THEN "resolved" ELSE "rejected",
            !.reply = reply,
            !.assessment = made,
            !.events = @ \o (IF \E i \in DOMAIN detections : detections[i].isRisk
                             THEN <<AgentEvent("risk-detected", NoAssessment, NoAssessment)>>
                             ELSE <<>>)
                         \o (IF saved
                             THEN <<AgentEvent("scan-completed", made,
                                               lastAssessmentAtEmit(last, made))>>
                             ELSE <<>>)]

\* OGAgent.quickCheck
agentQuickCheck(client, content) ==
    IF client = "null"
    THEN [hasRisk |-> FALSE, patterns |-> <<>>]
    ELSE [hasRisk |-> quickCheck(content).hasObviousRisk,
          patterns |-> quickCheck(content).patterns]

\* types ?? ["prompt-injection", "pii", "credentials"]
defaultDetectionTypes == <<"prompt-injection", "pii", "credentials">>

\* The types argument of analyzeContent: undefined (<<>> in a list of at most
\* one) or a list of type names, which the gateway passes on unchecked.
AnalyzeTypes ==
    {<<>>, <<<<>>>>, <<<<"pii">>>>, <<<<UnknownType>>>>}

\* analyzeContent without its guard: no client means nothing was found.
analyzeContentFindsNothing(client, types) ==
    IF client = "null"
    THEN [NoAnalysis EXCEPT !.status = "resolved", !.types = types]
    ELSE [NoAnalysis EXCEPT
             !.status = "awaiting", !.client = client, !.types = types,
             !.remoteCalls = Cardinality({i \in DOMAIN types : hasPrompt(types[i])})]

\* analyzeContent up to its await: if (!this.llmClient) throw, else one
\* detect call per type, each issuing its request unless it throws first.
analyzeContentCalled(client, types) ==
    IF client = "null"
    THEN [NoAnalysis EXCEPT !.status = "rejected", !.types = types,
                            !.error = "LLM client not configured"]
    ELSE [NoAnalysis EXCEPT
             !.status = "awaiting", !.client = client, !.types = types,
             !.remoteCalls = Cardinality({i \in DOMAIN types : hasPrompt(types[i])})]

\* analyzeContent after detectBatch settles: a rejected batch rejects the
\* call, otherwise risk-detected is emitted for every result with isRisk.
analyzeContentSettled(call, results) ==
    IF results.status = "rejected"
    THEN [call EXCEPT !.status = "rejected", !.error = "Unknown detection type"]
    ELSE [call EXCEPT !.status = "resolved", !.results = results.value,
                      !.riskDetected = Len(filterIsRisk(results.value, 1))]

\* constructor()
AgentInit ==
    /\ openclawState \in ScanConfigs
    /\ agentApiKey \in AgentKeys
    /\ agentLlmClient = clientFor(agentApiKey)
    /\ lastAssessment = NoAssessment
    /\ scans = <<>>
    /\ quickResult = NoQuickCheck
    /\ analysis = NoAnalysis
    /\ agentSettings = DefaultSettings
    /\ clientBuiltFrom = clientArgs(agentApiKey, agentSettings)
    /\ DetectIdle /\ BatchIdle /\ HooksIdle /\ ScoreIdle /\ SnapIdle /\ PluginIdle
    /\ EmitIdle /\ WatchIdle /\ GwIdle /\ StatusIdle
    /\ LifeIdle

\* The host rewrites (or removes) openclaw.json.
OpenClawChanges ==
    /\ \E config \in ScanConfigs \ {openclawState} : openclawState' = config
    /\ UNCHANGED <<agentApiKey, agentLlmClient, lastAssessment, scans, quickResult, analysis,
                   detectVars, batchVars, hookVars, scoreVars, snapVars, pluginVars,
                   lifeVars, configVars, emitVars, watchVars, gwVars, statusVars>>

\* runScan() up to its await; without a client or without a host config there
\* is no await and the call runs to its end.
runScan ==
    /\ Len(scans) < MaxScans
    /\ LET scan == NewScan(openclawState)
       IN  IF detectsConfig(agentLlmClient, openclawState)
           THEN /\ scans' = Append(scans, scan)
                /\ UNCHANGED lastAssessment
           ELSE \E saved \in BOOLEAN :
                  LET done == completeScan(scan, NoReply,
                                           detectionsAtStart(lastAssessment), saved,
                                           lastAssessment)
                  IN  /\ scans' = Append(scans, done)
                      /\ lastAssessment' = done.assessment

\* runScan() called from outside the agent (the gateway's run-scan).
RunScan ==
    /\ runScan
    /\ UNCHANGED <<openclawState, agentApiKey, agentLlmClient, quickResult, analysis,
                   detectVars, batchVars, hookVars, scoreVars, snapVars, pluginVars,
                   lifeVars, configVars, emitVars, watchVars, gwVars, statusVars>>

\* The config-audit detection of scan i settles and runScan runs to its end.
RunScanResumes ==
    /\ \E i \in DOMAIN scans :
         /\ scans[i].status = "awaiting"
         /\ \E reply \in AgentReplies, saved \in BOOLEAN :
              LET configDetection == detect(Request("config-audit", "absent"), reply).value
                  done == completeScan(scans[i], reply,
                                       Append(detectionsAtStart(lastAssessment),
                                              configDetection),
                                       saved, lastAssessment)
              IN  /\ scans' = [scans EXCEPT ![i] = done]
                  /\ lastAssessment' = done.assessment
    /\ UNCHANGED <<openclawState, agentApiKey, agentLlmClient, quickResult, analysis,
                   detectVars, batchVars, hookVars, scoreVars, snapVars, pluginVars,
                   lifeVars, configVars, emitVars, watchVars, gwVars, statusVars>>

\* updateConfig(updates): each of updates.apiKey and the pair updates.apiBaseUrl,
\* updates.model is undefined (<<>>) or given.  this.config is assigned
\* first; when saveConfig throws (saved is FALSE) the client is left as it
\* was, and so it is when updates.apiKey is undefined.
updateConfig(apiKeyUpdate, settingsUpdate, saved) ==
    /\ agentApiKey' = IF apiKeyUpdate = <<>> THEN agentApiKey ELSE apiKeyUpdate[1]
    /\ agentSettings' = IF settingsUpdate = <<>> THEN agentSettings ELSE settingsUpdate[1]
    /\ agentLlmClient' = IF saved /\ apiKeyUpdate # <<>>
                         THEN clientFor(agentApiKey')
                         ELSE agentLlmClient
    /\ clientBuiltFrom' = IF saved /\ apiKeyUpdate # <<>>
                          THEN clientArgs(agentApiKey', agentSettings')
                          ELSE clientBuiltFrom

\* updateConfig(updates) with updates that name neither apiBaseUrl nor model.
UpdateConfig ==
    /\ \E apiKeyUpdate \in {<<>>} \cup {<<k>> : k \in AgentKeys}, saved \in BOOLEAN :
         updateConfig(apiKeyUpdate, <<>>, saved)
    /\ UNCHANGED <<openclawState, lastAssessment, scans, quickResult, analysis,
                   detectVars, batchVars, hookVars, scoreVars, snapVars, pluginVars,
                   lifeVars, emitVars, watchVars, gwVars, statusVars>>

\* quickCheck(content)
QuickCheck ==
    /\ \E content \in Contents :
         LET result == agentQuickCheck(agentLlmClient, content)
         IN  quickResult' = [called |-> TRUE, content |-> content,
                             hasRisk |-> result.hasRisk, patterns |-> result.patterns]
    /\ UNCHANGED <<openclawState, agentApiKey, agentLlmClient, lastAssessment, scans,
                   analysis, detectVars, batchVars, hookVars, scoreVars,
                   snapVars, pluginVars, lifeVars, configVars, emitVars, watchVars, gwVars,
                   statusVars>>

\* analyzeContent(content, types), up to its throw or its await.
AnalyzeContent ==
    /\ analysis.status # "awaiting"
    /\ \E types \in AnalyzeTypes :
         analysis' = analyzeContentCalled(agentLlmClient,
                        IF types = <<>> THEN defaultDetectionTypes ELSE types[1])
    /\ UNCHANGED <<openclawState, agentApiKey, agentLlmClient, lastAssessment, scans,
                   quickResult, detectVars, batchVars, hookVars, scoreVars,
                   snapVars, pluginVars, lifeVars, configVars, emitVars, watchVars, gwVars,
                   statusVars>>

\* analyzeContent after detectBatch settles.
AnalyzeContentResumes ==
    /\ analysis.status = "awaiting"
    /\ \E answers \in [DOMAIN analysis.types -> AgentReplies] :
         analysis' = analyzeContentSettled(analysis,
                                           detectBatch(analysis.types, answers))
    /\ UNCHANGED <<openclawState, agentApiKey, agentLlmClient, lastAssessment, scans,
                   quickResult, detectVars, batchVars, hookVars, scoreVars,
                   snapVars, pluginVars, lifeVars, configVars, emitVars, watchVars, gwVars,
                   statusVars>>

AgentNext ==
    \/ OpenClawChanges
    \/ RunScan
    \/ RunScanResumes
    \/ UpdateConfig

SpecAgent == AgentInit /\ [][AgentNext]_vars

\* The agent between scans: its configuration changes and quickCheck is
\* called.
AgentQuickNext ==
    \/ OpenClawChanges
    \/ UpdateConfig
    \/ QuickCheck

SpecAgentQuick == AgentInit /\ [][AgentQuickNext]_vars

Finished(scan) == scan.status \in {"resolved", "rejected"}

\* C12: a scan always completes: no runScan call rejects, and every call that
\* is over has resolved with an assessment and emitted scan-completed after
\* its scan-started.
C12_ScanAlwaysCompletes ==
    \A i \in DOMAIN scans :
        /\ scans[i].status # "rejected"
        /\ scans[i].status = "resolved" =>
              /\ scans[i].assessment # NoAssessment
              /\ scans[i].events[1].type = "scan-started"
              /\ scans[i].events[Len(scans[i].events)].type = "scan-completed"


C14_LatestSnapshotWins ==
    /\ lastAssessment = NoAssessment
       \/ \E i \in DOMAIN scans : scans[i].assessment = lastAssessment
    /\ (scans # <<>> /\ \A i \in DOMAIN scans : scans[i].status = "resolved")
       => \E i \in DOMAIN scans :
             /\ scans[i].assessment = lastAssessment
             /\ scans[i].state = scans[Len(scans)].state


\* C15: for every content holding a credential-shaped substring, both
\* OGLLMClient.quickCheck and OGAgent.quickCheck report a risk with a
\* credential-tagged pattern, whether or not an API key is configured.
C15_QuickCheckAlwaysAvailable ==
    /\ \A content \in Contents :
          CredentialIn(content) =>
             /\ quickCheck(content).hasObviousRisk
             /\ hasCredentials(quickCheck(content))
    /\ (quickResult.called /\ CredentialIn(quickResult.content)) =>
          /\ quickResult.hasRisk
          /\ hasCredentials(quickResult)


\* C25: a runScan call that read a snapshot without config issues no remote
\* detection and makes the assessment with no detections, blastRadiusScore 0,
\* threatScore 0, score 0 and level none, with or without a client.
C25_NullConfigScan ==
    \A i \in DOMAIN scans :
        ~scans[i].state.present =>
            /\ scans[i].status # "awaiting"
            /\ scans[i].reply = NoReply
            /\ scans[i].assessment =
                  [level |-> "none", score |-> 0, blastRadiusScore |-> 0,
                   threatScore |-> 0, detections |-> <<>>]

C25_Witness ==
    /\ Len(scans) = 1
    /\ agentLlmClient = "client"
    /\ ~scans[1].state.present
    /\ scans[1].status = "resolved"
    /\ lastAssessment.level = "none"
    /\ lastAssessment.score = 0

\* C28: every assessment runScan makes has at most one detection, the
\* config-audit one, a threatScore out of 0, 10, 20, 40 and a score of at most
\* 64, so never level high.
C28_ScanNeverHigh ==
    /\ lastAssessment.level # "high"
    /\ \A i \in DOMAIN scans :
          Finished(scans[i]) =>
             /\ Len(scans[i].assessment.detections) <= 1
             /\ \A k \in DOMAIN scans[i].assessment.detections :
                   scans[i].assessment.detections[k].type = "config-audit"
             /\ scans[i].assessment.threatScore \in {0, 10, 20, 40}
             /\ scans[i].assessment.score <= 64
             /\ scans[i].assessment.level # "high"

C28_Witness ==
    /\ Len(scans) = 1
    /\ scans[1].status = "resolved"
    /\ Len(scans[1].assessment.detections) = 1
    /\ scans[1].assessment.threatScore = 40
    /\ scans[1].assessment.blastRadiusScore = 100
    /\ scans[1].assessment.score = 64
    /\ scans[1].assessment.level = "medium"

EventTypes(scan) == [k \in DOMAIN scan.events |-> scan.events[k].type]

\* C29: the events of one runScan call are scan-started, then risk-detected
\* once exactly when the config-audit verdict has isRisk true, then
\* scan-completed, which carries the assessment that the call returns and that
\* getLastAssessment() already gives when the event is dispatched.
C29_ScanEventOrder ==
    \A i \in DOMAIN scans :
        LET scan == scans[i]
            risky == scan.reply.kind = "json" /\ scan.reply.isRisk = "true"
        IN  /\ scan.status = "awaiting" => EventTypes(scan) = <<"scan-started">>
            /\ Finished(scan) =>
                  EventTypes(scan) =
                     <<"scan-started">>
                     \o (IF risky THEN <<"risk-detected">> ELSE <<>>)
                     \o (IF scan.status = "resolved" THEN <<"scan-completed">> ELSE <<>>)
            /\ \A k \in DOMAIN scan.events :
                  scan.events[k].type = "scan-completed" =>
                     /\ scan.events[k].assessment = scan.assessment
                     /\ scan.events[k].lastAssessment = scan.assessment

C29_Witness ==
    /\ Len(scans) = 2
    /\ scans[1].status = "resolved"
    /\ scans[2].status = "resolved"
    /\ scans[1].assessment # scans[2].assessment
    /\ EventTypes(scans[2]) = <<"scan-started", "risk-detected", "scan-completed">>
    /\ scans[2].events[3].lastAssessment = scans[2].assessment
    /\ lastAssessment = scans[1].assessment


AgentAnalyzeNext ==
    \/ OpenClawChanges
    \/ UpdateConfig
    \/ AnalyzeContent
    \/ AnalyzeContentResumes

SpecAgentAnalyze == AgentInit /\ [][AgentAnalyzeNext]_vars

\* C23: an analyzeContent call made without a client fails with the
\* configuration error: it never resolves, issues no remote request and emits
\* no risk-detected event.
C23_NotConfiguredIsAnError ==
    (analysis.status # "idle" /\ analysis.client = "null") =>
        /\ analysis.status = "rejected"
        /\ analysis.error = "LLM client not configured"
        /\ analysis.remoteCalls = 0
        /\ analysis.riskDetected = 0
        /\ analysis.results = <<>>

C23_Witness ==
    /\ analysis.status = "rejected"
    /\ analysis.client = "null"
    /\ analysis.types = defaultDetectionTypes
    /\ analysis.error = "LLM client not configured"
    /\ agentLlmClient = "null"
    /\ agentApiKey = ""


(***************************************************************************)
(* SpecSnapshot: OpenClawWatcher.getState over a host state tree.  The     *)
(* tree says, for each file system call getState makes, what the call      *)
(* finds: a file that is absent, valid or present but unreadable or        *)
(* malformed, a directory listing that throws, a session file whose        *)
(* statSync throws (removed or replaced between readdirSync and statSync,  *)
(* a dangling link, a permission error).                                   *)
(***************************************************************************)

MaxAgents == 2   \* entries of the agents directory

ConfigFiles == {"absent", "malformed", "valid"}

\* What a sessions directory lists: names ending in .jsonl whose stat
\* succeeds or throws, and other names.
SessionListings ==
    {<<>>, <<"jsonl">>, <<"jsonl-stat-throws">>, <<"other">>,
     <<"jsonl", "jsonl">>, <<"jsonl", "jsonl-stat-throws">>,
     <<"jsonl-stat-throws", "jsonl">>, <<"other", "jsonl">>}

SessionDirs ==
    {[exists |-> FALSE, readable |-> TRUE, files |-> <<>>],
     [exists |-> TRUE, readable |-> FALSE, files |-> <<"jsonl">>]}
    \cup {[exists |-> TRUE, readable |-> TRUE, files |-> l] : l \in SessionListings}

\* An entry of the agents directory: a directory or a plain file.
AgentEntries ==
    {[isDirectory |-> FALSE, config |-> "absent", sessions |-> CHOOSE d \in SessionDirs : ~d.exists]}
    \cup [isDirectory : {TRUE}, config : ConfigFiles, sessions : SessionDirs]

AgentsDirs ==
    {[exists |-> FALSE, readable |-> TRUE, dirs |-> <<>>],
     [exists |-> TRUE, readable |-> FALSE, dirs |-> <<>>]}
    \cup {[exists |-> TRUE, readable |-> TRUE, dirs |-> d] :
            d \in UNION {[1..n -> AgentEntries] : n \in 0..MaxAgents}}

CredentialDirs ==
    {[exists |-> FALSE, readable |-> TRUE, files |-> <<>>],
     [exists |-> TRUE, readable |-> FALSE, files |-> <<"oauth.json">>],
     [exists |-> TRUE, readable |-> TRUE, files |-> <<"oauth.json">>]}

HostTrees == [config : ConfigFiles, agents : AgentsDirs, credentials : CredentialDirs]

\* readdirSync(sessionsPath).filter((f) => f.endsWith(".jsonl")); a file is
\* named by its position in the listing.
sessionFiles(dir) ==
    SelectSeq([j \in DOMAIN dir.files |-> [sessionId |-> j, kind |-> dir.files[j]]],
              LAMBDA f : f.kind # "other")

\* for (const sessionFile of sessionFiles) { statSync; state.sessions.push }:
\* the first statSync that throws leaves the loop for the catch block.
RECURSIVE pushSessions(_, _, _)
pushSessions(agentId, files, j) ==
    IF j > Len(files) \/ files[j].kind = "jsonl-stat-throws"
    THEN <<>>
    ELSE <<[agentId |-> agentId, sessionId |-> files[j].sessionId]>>
         \o pushSessions(agentId, files, j + 1)

\* The AgentInfo built for one directory of the agents directory.
agentInfo(id, dir) ==
    [id |-> id,
     configExists |-> dir.config # "absent",
     config |-> IF dir.config = "valid" THEN "parsed" ELSE "undefined",
     sessionCount |-> IF dir.sessions.exists /\ dir.sessions.readable
                      THEN Len(sessionFiles(dir.sessions))
                      ELSE 0]

\* for (const dir of agentDirs): plain files are skipped, every directory
\* adds its sessions to state.sessions and its AgentInfo to state.agents.
RECURSIVE scanAgents(_, _, _)
scanAgents(dirs, i, state) ==
    IF i > Len(dirs) THEN state
    ELSE IF ~dirs[i].isDirectory THEN scanAgents(dirs, i + 1, state)
    ELSE scanAgents(dirs, i + 1,
            [state EXCEPT
                !.sessions = @ \o (IF dirs[i].sessions.exists /\ dirs[i].sessions.readable
                                   THEN pushSessions(i, sessionFiles(dirs[i].sessions), 1)
                                   ELSE <<>>),
                !.agents = Append(@, agentInfo(i, dirs[i]))])

\* static getState(): OpenClawState
getState(tree) ==
    LET loaded  == [NoSnapshot EXCEPT
                       !.returned = TRUE,
                       !.configExists = tree.config # "absent",
                       !.config = IF tree.config = "valid" THEN "parsed" ELSE "null"]
        scanned == IF tree.agents.exists /\ tree.agents.readable
                   THEN scanAgents(tree.agents.dirs, 1, loaded)
                   ELSE loaded
    IN  [scanned EXCEPT
            !.credentialFiles = IF tree.credentials.exists /\ tree.credentials.readable
                                THEN tree.credentials.files
                                ELSE <<>>]

SnapshotInit ==
    /\ hostTree \in HostTrees
    /\ snapshot = NoSnapshot
    /\ DetectIdle /\ BatchIdle /\ HooksIdle /\ ScoreIdle /\ AgentIdle /\ PluginIdle
    /\ LifeIdle /\ ConfigIdle /\ EmitIdle /\ WatchIdle /\ GwIdle /\ StatusIdle

\* OpenClawWatcher.getState()
GetState ==
    /\ ~snapshot.returned
    /\ snapshot' = getState(hostTree)
    /\ UNCHANGED <<hostTree, detectVars, batchVars, hookVars, scoreVars, agentVars,
                   pluginVars, lifeVars, configVars, emitVars, watchVars, gwVars, statusVars>>

SnapshotNext ==
    \/ GetState

SpecSnapshot == SnapshotInit /\ [][SnapshotNext]_vars

\* The sessions the snapshot lists for an agent.
SessionsOf(agentId) ==
    SelectSeq(snapshot.sessions, LAMBDA session : session.agentId = agentId)

\* C22: a returned snapshot lists every session file whose metadata could be
\* read, and each agent's sessionCount is the number of sessions listed for it.
C22_SnapshotDegradesPerEntry ==
    snapshot.returned =>
        /\ \A k \in DOMAIN snapshot.agents :
             snapshot.agents[k].sessionCount = Len(SessionsOf(snapshot.agents[k].id))
        /\ \A i \in DOMAIN hostTree.agents.dirs :
             LET dir == hostTree.agents.dirs[i] IN
             (hostTree.agents.readable /\ dir.isDirectory /\ dir.sessions.readable) =>
                 \A j \in DOMAIN dir.sessions.files :
                     dir.sessions.files[j] = "jsonl" =>
                         \E n \in DOMAIN snapshot.sessions :
                             snapshot.sessions[n] = [agentId |-> i, sessionId |-> j]


(***************************************************************************)
(* SpecLifecycle: start() and stop() of one OGAgent, its interval timer    *)
(* and its file watcher, with the scans they launch.  stop() is two steps: *)
(* up to await this.watcher.stop(), and from there to the stopped event.   *)
(***************************************************************************)

MaxStarts == 2   \* start() calls that take effect

WatchEventTypes ==
    {"config-changed", "agent-changed", "session-changed", "credentials-changed"}

\* handleWatchEvent rescanning on every event.
triggersScanAlways(type) == TRUE

\* if (event.type === "config-changed" || event.type === "credentials-changed")
triggersScan(type) == type \in {"config-changed", "credentials-changed"}

\* OpenClawWatcher.start(): nothing when running or when OpenClaw is not
\* installed, else a new chokidar watcher.
watcherStart(w, installed) ==
    IF w.isRunning \/ ~installed
    THEN w
    ELSE [isRunning |-> TRUE, ref |-> "set", open |-> w.open + 1]

\* OpenClawWatcher.stop() up to its await: close() is called on the watcher
\* this.watcher refers to.
watcherStop(w) ==
    IF ~w.isRunning THEN w
    ELSE [w EXCEPT !.isRunning = FALSE,
                   !.open = IF w.ref = "set" THEN @ - 1 ELSE @]

\* Whether OpenClawWatcher.stop() awaits a close().
awaitsClose(w) == w.isRunning /\ w.ref = "set"

Started == Len(SelectSeq(lifecycle, LAMBDA e : e = "started"))

\* start() without its guard.
startAlways(running) == FALSE

\* if (this.isRunning) return;
startReturnsEarly(running) == running

\* start(): scan.watchFiles, scan.intervalMs > 0 and whether OpenClaw is
\* installed are read at the call.  A call that returns early changes and
\* emits nothing: it is a stuttering step.
Start ==
    /\ ~startReturnsEarly(isRunning)
    /\ Started < MaxStarts
    /\ isRunning' = TRUE
    /\ lifecycle' = Append(lifecycle, "started")
    /\ \E watchFiles \in BOOLEAN, periodic \in BOOLEAN, installed \in BOOLEAN :
         /\ watcher' = IF watchFiles THEN watcherStart(watcher, installed) ELSE watcher
         /\ scanInterval' = IF periodic THEN "timer" ELSE scanInterval
         /\ timers' = IF periodic THEN timers + 1 ELSE timers
    /\ runScan
    /\ launched' = Append(launched, "start")
    /\ UNCHANGED <<openclawState, agentApiKey, agentLlmClient, quickResult, analysis,
                   stopCalls,
                   detectVars, batchVars, hookVars, scoreVars, snapVars, pluginVars,
                   configVars, emitVars, watchVars, gwVars, statusVars>>

\* stop() up to await this.watcher.stop()
Stop ==
    /\ isRunning
    /\ isRunning' = FALSE
    /\ scanInterval' = "null"
    /\ timers' = IF scanInterval = "timer" THEN timers - 1 ELSE timers
    /\ watcher' = watcherStop(watcher)
    /\ stopCalls' = IF awaitsClose(watcher)
                    THEN [stopCalls EXCEPT !.closing = @ + 1]
                    ELSE [stopCalls EXCEPT !.plain = @ + 1]
    /\ UNCHANGED <<lifecycle, launched, agentVars,
                   detectVars, batchVars, hookVars, scoreVars, snapVars, pluginVars,
                   configVars, emitVars, watchVars, gwVars, statusVars>>

\* stop() after its await: a stop that closed a watcher sets this.watcher of
\* the OpenClawWatcher to null; the stopped event is emitted.
StopResumes ==
    /\ \E kind \in {"closing", "plain"} :
         /\ stopCalls[kind] > 0
         /\ stopCalls' = [stopCalls EXCEPT ![kind] = @ - 1]
         /\ watcher' = IF kind = "closing" THEN [watcher EXCEPT !.ref = "null"] ELSE watcher
    /\ lifecycle' = Append(lifecycle, "stopped")
    /\ UNCHANGED <<isRunning, scanInterval, timers, launched, agentVars,
                   detectVars, batchVars, hookVars, scoreVars, snapVars, pluginVars,
                   configVars, emitVars, watchVars, gwVars, statusVars>>

\* The interval timer fires: () => void this.runScan()
TimerFires ==
    /\ timers > 0
    /\ runScan
    /\ launched' = Append(launched, "timer")
    /\ UNCHANGED <<openclawState, agentApiKey, agentLlmClient, quickResult, analysis,
                   isRunning, scanInterval, timers, watcher, stopCalls, lifecycle,
                   detectVars, batchVars, hookVars, scoreVars, snapVars, pluginVars,
                   configVars, emitVars, watchVars, gwVars, statusVars>>

\* An open chokidar watcher reports a change and the OpenClawWatcher emits
\* its event: handleWatchEvent(event) forwards it to the agent's handlers,
\* which changes nothing of the agent, and rescans on two of the types.
HandleWatchEvent ==
    /\ watcher.open > 0
    /\ \E type \in WatchEventTypes :
         /\ IF triggersScan(type)
            THEN /\ runScan
                 /\ launched' = Append(launched, "watcher")
            ELSE UNCHANGED <<scans, lastAssessment, launched>>
    /\ UNCHANGED <<openclawState, agentApiKey, agentLlmClient, quickResult, analysis,
                   isRunning, scanInterval, timers, watcher, stopCalls, lifecycle,
                   detectVars, batchVars, hookVars, scoreVars, snapVars, pluginVars,
                   configVars, emitVars, watchVars, gwVars, statusVars>>

LifecycleNext ==
    \/ Start
    \/ Stop
    \/ StopResumes
    \/ TimerFires
    \/ HandleWatchEvent
    \/ RunScanResumes

\* A constructed agent on a host whose openclaw.json exists.
LifecycleInit ==
    /\ AgentInit
    /\ openclawState = HostConfig({"telegram", "discord", "slack"}, 2, 0, 1)

SpecLifecycle == LifecycleInit /\ [][LifecycleNext]_vars

\* The last stop() has resolved and start() was not called since.
StopResolved ==
    /\ ~isRunning
    /\ stopCalls = [closing |-> 0, plain |-> 0]
    /\ lifecycle # <<>>
    /\ lifecycle[Len(lifecycle)] = "stopped"

\* C30: once stop() has resolved, no step continues a scan that the timer or
\* a watcher event started: such a scan emits nothing more and assigns
\* nothing more, and no new one is started.
C30_QuietAfterStop ==
    [][StopResolved =>
          /\ launched' # launched => launched'[Len(launched')] = "start"
          /\ \A i \in DOMAIN scans :
               launched[i] \in {"timer", "watcher"} => scans'[i] = scans[i]]_vars


\* How many scans start() launched.
InitialScans == Len(SelectSeq(launched, LAMBDA who : who = "start"))

\* C31: at most one interval timer is live, and only while the agent is
\* running; this.scanInterval is set exactly when a timer is live; every
\* start() that took effect emitted started once and launched one scan.
C31_LifecycleInvariant ==
    /\ timers \in {0, 1}
    /\ timers = 1 => isRunning
    /\ scanInterval = "timer" <=> timers = 1
    /\ Started = InitialScans

C31_Witness ==
    /\ lifecycle = <<"started", "stopped", "started">>
    /\ isRunning
    /\ timers = 1
    /\ launched = <<"start", "start">>


(***************************************************************************)
(* SpecConfig: the configuration of one OGAgent and its classification     *)
(* client, from the constructor on, under updateConfig calls.              *)
(***************************************************************************)

SettingsValues ==
    [apiBaseUrl : {"default-url", "custom-url"}, model : {"default-model", "custom-model"}]

\* The keys an update can carry.
UpdateKeys == AgentKeys \cup {"og-key-2"}

\* constructor(): loadConfig() gives the defaults or what the file holds.
ConfigInit ==
    /\ openclawState = NoConfig
    /\ agentApiKey \in AgentKeys
    /\ agentSettings \in SettingsValues
    /\ agentLlmClient = clientFor(agentApiKey)
    /\ clientBuiltFrom = clientArgs(agentApiKey, agentSettings)
    /\ lastAssessment = NoAssessment
    /\ scans = <<>>
    /\ quickResult = NoQuickCheck
    /\ analysis = NoAnalysis
    /\ DetectIdle /\ BatchIdle /\ HooksIdle /\ ScoreIdle /\ SnapIdle /\ PluginIdle
    /\ EmitIdle /\ WatchIdle /\ GwIdle /\ StatusIdle
    /\ LifeIdle

\* updateConfig(updates) with updates that name apiBaseUrl or model, and
\* apiKey or not.
UpdateEndpoint ==
    /\ \E apiKeyUpdate \in {<<>>} \cup {<<k>> : k \in UpdateKeys},
          settings \in SettingsValues, saved \in BOOLEAN :
         updateConfig(apiKeyUpdate, <<settings>>, saved)
    /\ UNCHANGED <<openclawState, lastAssessment, scans, quickResult, analysis,
                   detectVars, batchVars, hookVars, scoreVars, snapVars, pluginVars,
                   lifeVars, emitVars, watchVars, gwVars, statusVars>>

ConfigNext ==
    \/ UpdateConfig
    \/ UpdateEndpoint

SpecConfig == ConfigInit /\ [][ConfigNext]_vars

\* isConfigured(): Boolean(this.config.apiKey)
isConfigured == agentApiKey # ""

\* C32: the agent holds a client exactly when its configuration has an API
\* key, and the client was constructed from the key, base URL and model the
\* configuration holds now.
C32_ClientMatchesConfig ==
    /\ agentLlmClient # "null" <=> isConfigured
    /\ agentLlmClient # "null" =>
         clientBuiltFrom = [apiKey |-> agentApiKey,
                            apiBaseUrl |-> agentSettings.apiBaseUrl,
                            model |-> agentSettings.model]


\* The updates a call can carry.
KeyUpdates == {<<>>} \cup {<<k>> : k \in UpdateKeys}
SettingsUpdates == {<<>>} \cup {<<v>> : v \in SettingsValues}

\* The step is an updateConfig call in which saveConfig threw, and is no step
\* a call that returned could have taken.
UpdateThrew ==
    /\ \E apiKeyUpdate \in KeyUpdates, settingsUpdate \in SettingsUpdates :
         updateConfig(apiKeyUpdate, settingsUpdate, FALSE)
    /\ ~\E apiKeyUpdate \in KeyUpdates, settingsUpdate \in SettingsUpdates :
         updateConfig(apiKeyUpdate, settingsUpdate, TRUE)

\* C33: an updateConfig call whose saveConfig throws leaves the configuration
\* in memory and the client as they were.
C33_UpdateAllOrNothing ==
    [][UpdateThrew =>
          /\ agentApiKey' = agentApiKey
          /\ agentSettings' = agentSettings
          /\ agentLlmClient' = agentLlmClient
          /\ clientBuiltFrom' = clientBuiltFrom]_vars


(***************************************************************************)
(* SpecEmit: the handler list of one OGAgent under onEvent, offEvent and   *)
(* emit.  A handler is named by what it does when it is called: it         *)
(* returns, it throws, it calls offEvent on itself, or it calls onEvent    *)
(* with a handler that returns.                                            *)
(***************************************************************************)

MaxHandlers == 2   \* length of this.handlers

HandlerKinds == {"returns", "throws", "unsubscribes", "subscribes"}

\* onEvent(handler): this.handlers.push(handler)
onEvent(hs, handler) == Append(hs, handler)

\* offEvent(handler): indexOf gives the first occurrence, splice removes it.
offEvent(hs, handler) ==
    IF \E i \in DOMAIN hs : hs[i] = handler
    THEN LET idx == CHOOSE i \in DOMAIN hs :
                        hs[i] = handler /\ \A j \in 1..(i - 1) : hs[j] # handler
         IN  SubSeq(hs, 1, idx - 1) \o SubSeq(hs, idx + 1, Len(hs))
    ELSE hs

\* this.handlers after the handler at position i of hs ran.
handlerRan(hs, i) ==
    CASE hs[i] = "unsubscribes" -> offEvent(hs, hs[i])
      [] hs[i] = "subscribes"   -> onEvent(hs, "returns")
      [] OTHER                  -> hs

\* for (const handler of this.handlers) { try { handler(event) } catch {} }:
\* the array iterator reads this.handlers[i] and its length afresh at every
\* step; an exception of a handler is caught.
RECURSIVE emit(_, _, _)
emit(hs, i, called) ==
    IF i > Len(hs)
    THEN [handlers |-> hs, called |-> called, threw |-> FALSE]
    ELSE emit(handlerRan(hs, i), i + 1, Append(called, hs[i]))

EmitInit ==
    /\ handlers = <<>>
    /\ delivery = NoDelivery
    /\ DetectIdle /\ BatchIdle /\ HooksIdle /\ ScoreIdle /\ AgentIdle /\ SnapIdle
    /\ PluginIdle /\ LifeIdle /\ ConfigIdle /\ WatchIdle /\ GwIdle /\ StatusIdle

\* onEvent(handler)
OnEvent ==
    /\ Len(handlers) < MaxHandlers
    /\ \E handler \in HandlerKinds : handlers' = onEvent(handlers, handler)
    /\ UNCHANGED <<delivery, detectVars, batchVars, hookVars, scoreVars, agentVars,
                   snapVars, pluginVars, lifeVars, configVars, watchVars, gwVars, statusVars>>

\* offEvent(handler)
OffEvent ==
    /\ \E handler \in HandlerKinds : handlers' = offEvent(handlers, handler)
    /\ UNCHANGED <<delivery, detectVars, batchVars, hookVars, scoreVars, agentVars,
                   snapVars, pluginVars, lifeVars, configVars, watchVars, gwVars, statusVars>>

\* emit(event), from start(), stop(), runScan(), analyzeContent() or
\* handleWatchEvent().
Emit ==
    /\ LET done == emit(handlers, 1, <<>>)
       IN  /\ Len(done.handlers) <= MaxHandlers
           /\ handlers' = done.handlers
           /\ delivery' = [emitted |-> TRUE, registered |-> handlers,
                           called |-> done.called, threw |-> done.threw]
    /\ UNCHANGED <<detectVars, batchVars, hookVars, scoreVars, agentVars,
                   snapVars, pluginVars, lifeVars, configVars, watchVars, gwVars, statusVars>>

EmitNext ==
    \/ OnEvent
    \/ OffEvent
    \/ Emit

SpecEmit == EmitInit /\ [][EmitNext]_vars

\* C34: an emit calls exactly the handlers registered at its start, each
\* registration once and in registration order, and does not throw.
C34_DeliveredOnceInOrder ==
    delivery.emitted =>
        /\ delivery.called = delivery.registered
        /\ ~delivery.threw


(***************************************************************************)
(* SpecWatch: one change reported by chokidar, through                     *)
(* OpenClawWatcher.handleFileChange and OGAgent.handleWatchEvent.  A path  *)
(* is absolute and is held as its segments: <<"agents", "notes.txt">> is   *)
(* the string "/agents/notes.txt".                                         *)
(***************************************************************************)

MaxPathLen == 3   \* segments of a changed path

Segments ==
    {"agents", "sessions", "credentials", "openclaw.json", "clawdbot.json",
     "old-openclaw.json", "notes.txt"}

Paths == UNION {[1..n -> Segments] : n \in 1..MaxPathLen}

\* path.endsWith(name) for a name without a slash: the last segment ends
\* with it.
endsWith(path, name) ==
    \/ path[Len(path)] = name
    \/ name = "openclaw.json" /\ path[Len(path)] = "old-openclaw.json"

\* path.includes("/" + dir + "/"): a segment that is not the last one is dir.
includes(path, dir) == \E i \in 1..(Len(path) - 1) : path[i] = dir

\* handleFileChange(path, changeType): the event emitted, if any.
handleFileChange(path) ==
    IF endsWith(path, "openclaw.json") \/ endsWith(path, "clawdbot.json")
       \/ endsWith(path, "openclaw.json")
    THEN [handled |-> TRUE, type |-> "config-changed"]
    ELSE IF includes(path, "agents")
    THEN [handled |-> TRUE, type |-> "agent-changed"]
    ELSE IF includes(path, "sessions")
    THEN [handled |-> TRUE, type |-> "session-changed"]
    ELSE IF includes(path, "credentials")
    THEN [handled |-> TRUE, type |-> "credentials-changed"]
    ELSE [handled |-> TRUE, type |-> ""]

\* handleWatchEvent(event): emit openclaw-changed, then void this.runScan()
\* for two of the types.
handleWatchEvent(type) ==
    <<"openclaw-changed">> \o (IF triggersScan(type) THEN <<"runScan">> ELSE <<>>)

WatchInit ==
    /\ changedPath \in Paths
    /\ watchEvent = NoWatchEvent
    /\ agentDid = <<>>
    /\ DetectIdle /\ BatchIdle /\ HooksIdle /\ ScoreIdle /\ AgentIdle /\ SnapIdle
    /\ PluginIdle /\ LifeIdle /\ ConfigIdle /\ EmitIdle /\ GwIdle /\ StatusIdle

\* chokidar's change, add or unlink callback: handleFileChange, and through
\* the watcher's emit the agent's handleWatchEvent.
HandleFileChange ==
    /\ ~watchEvent.handled
    /\ watchEvent' = handleFileChange(changedPath)
    /\ agentDid' = IF watchEvent'.type = "" THEN <<>> ELSE handleWatchEvent(watchEvent'.type)
    /\ UNCHANGED <<changedPath, detectVars, batchVars, hookVars, scoreVars, agentVars,
                   snapVars, pluginVars, lifeVars, configVars, emitVars, gwVars, statusVars>>

WatchNext ==
    \/ HandleFileChange

SpecWatch == WatchInit /\ [][WatchNext]_vars

\* The file name of the changed path ends with a config file name.
ConfigNamed ==
    changedPath[Len(changedPath)] \in {"openclaw.json", "clawdbot.json", "old-openclaw.json"}

\* The changed path lies below a directory of that name.
Below(dir) == \E i \in DOMAIN changedPath : i < Len(changedPath) /\ changedPath[i] = dir

\* C35: the type of the event is given by the first rule that matches, in
\* the order config file name, /agents/, /sessions/, /credentials/; a path
\* matching none gives no event and nothing is done; every event is
\* forwarded as openclaw-changed first, and runScan follows exactly for
\* config-changed and credentials-changed.
C35_WatcherRescans ==
    watchEvent.handled =>
        /\ watchEvent.type = "config-changed" <=> ConfigNamed
        /\ watchEvent.type = "agent-changed" <=> ~ConfigNamed /\ Below("agents")
        /\ watchEvent.type = "session-changed" <=>
             ~ConfigNamed /\ ~Below("agents") /\ Below("sessions")
        /\ watchEvent.type = "credentials-changed" <=>
             ~ConfigNamed /\ ~Below("agents") /\ ~Below("sessions") /\ Below("credentials")
        /\ watchEvent.type = "" <=>
             ~ConfigNamed /\ ~Below("agents") /\ ~Below("sessions") /\ ~Below("credentials")
        /\ watchEvent.type = "" => agentDid = <<>>
        /\ watchEvent.type \in {"config-changed", "credentials-changed"} =>
             agentDid = <<"openclaw-changed", "runScan">>
        /\ watchEvent.type \in {"agent-changed", "session-changed"} =>
             agentDid = <<"openclaw-changed">>

C35_Witness ==
    /\ watchEvent.handled
    /\ changedPath = <<"agents", "sessions", "notes.txt">>
    /\ watchEvent.type = "agent-changed"
    /\ agentDid = <<"openclaw-changed">>

-----------------------------------------------------------------------------
\* The dashboard's GatewayClient (ui/src/ui/gateway.ts): one WebSocket to the
\* gateway, reconnecting with a growing delay.  A socket that has closed is
\* gone; the others are counted by state, and gwWs is the state of the one
\* this.ws refers to.

MaxSockets == 2

MaxTimers == 2

SocketCount ==
    (IF gwWs = "null" THEN 0 ELSE 1) + orphans.connecting + orphans.open + orphans.closing

\* Sockets that are connecting or open, whether this.ws refers to them or not.
LiveSockets == (IF gwWs = "null" THEN 0 ELSE 1) + orphans.connecting + orphans.open

\* this.ws is overwritten while it refers to a socket in the given state: the
\* socket lives on with its handlers attached.
orphaned(o, state) == IF state = "null" THEN o ELSE [o EXCEPT ![state] = @ + 1]

nextBackoffFlat(b) == b

\* Math.min(this.backoffMs * 1.7, 15_000)
nextBackoff(b) == Min((b * 17) \div 10, MaxBackoffMs * Scale)

\* connect(): nothing when closed, else this.ws = new WebSocket(url), whatever
\* this.ws referred to.
connect(closed) ==
    IF closed
    THEN gwWs' = gwWs /\ orphans' = orphans
    ELSE gwWs' = "connecting" /\ orphans' = orphaned(orphans, gwWs)

\* scheduleReconnect(): nothing when closed, else a timer for connect() after
\* the present delay, and the delay grows.
scheduleReconnect ==
    IF gwClosed
    THEN UNCHANGED <<reconnectTimers, backoffMs, delays>>
    ELSE /\ reconnectTimers < MaxTimers
         /\ reconnectTimers' = reconnectTimers + 1
         /\ backoffMs' = nextBackoff(backoffMs)
         /\ delays' = [previous |-> delays.last, last |-> backoffMs]

\* start()
GwStart ==
    /\ SocketCount < MaxSockets
    /\ gwClosed' = FALSE
    /\ connect(FALSE)
    /\ UNCHANGED <<reconnectTimers, backoffMs, delays>>
    /\ UNCHANGED <<detectVars, batchVars, hookVars, scoreVars, agentVars, snapVars, pluginVars,
                   lifeVars, configVars, emitVars, watchVars, statusVars>>

\* stop(): this.ws?.close() leaves the socket closing, its close event is
\* still to come.
GwStop ==
    /\ gwClosed' = TRUE
    /\ orphans' = IF gwWs = "null" THEN orphans ELSE [orphans EXCEPT !.closing = @ + 1]
    /\ gwWs' = "null"
    /\ UNCHANGED <<reconnectTimers, backoffMs, delays>>
    /\ UNCHANGED <<detectVars, batchVars, hookVars, scoreVars, agentVars, snapVars, pluginVars,
                   lifeVars, configVars, emitVars, watchVars, statusVars>>

\* ws.onopen of a connecting socket, the current one or an orphan.
SocketOpens ==
    /\ \/ /\ gwWs = "connecting"
          /\ gwWs' = "open"
          /\ orphans' = orphans
       \/ /\ orphans.connecting > 0
          /\ orphans' = [orphans EXCEPT !.connecting = @ - 1, !.open = @ + 1]
          /\ gwWs' = gwWs
    /\ backoffMs' = InitialBackoffMs * Scale
    /\ delays' = NoDelays
    /\ UNCHANGED <<gwClosed, reconnectTimers>>
    /\ UNCHANGED <<detectVars, batchVars, hookVars, scoreVars, agentVars, snapVars, pluginVars,
                   lifeVars, configVars, emitVars, watchVars, statusVars>>

\* ws.onclose of any socket: this.ws = null whichever socket closed, then
\* scheduleReconnect().
SocketCloses ==
    /\ \/ /\ gwWs # "null"
          /\ orphans' = orphans
       \/ \E state \in {"connecting", "open", "closing"} :
            /\ orphans[state] > 0
            /\ orphans' = orphaned([orphans EXCEPT ![state] = @ - 1], gwWs)
    /\ gwWs' = "null"
    /\ scheduleReconnect
    /\ UNCHANGED gwClosed
    /\ UNCHANGED <<detectVars, batchVars, hookVars, scoreVars, agentVars, snapVars, pluginVars,
                   lifeVars, configVars, emitVars, watchVars, statusVars>>

\* The timer of scheduleReconnect fires: connect().
ReconnectTimerFires ==
    /\ reconnectTimers > 0
    /\ gwClosed \/ SocketCount < MaxSockets
    /\ reconnectTimers' = reconnectTimers - 1
    /\ connect(gwClosed)
    /\ UNCHANGED <<gwClosed, backoffMs, delays>>
    /\ UNCHANGED <<detectVars, batchVars, hookVars, scoreVars, agentVars, snapVars, pluginVars,
                   lifeVars, configVars, emitVars, watchVars, statusVars>>

GatewayInit ==
    /\ GwIdle
    /\ DetectIdle /\ BatchIdle /\ HooksIdle /\ ScoreIdle /\ AgentIdle /\ SnapIdle
    /\ PluginIdle /\ LifeIdle /\ ConfigIdle /\ EmitIdle /\ WatchIdle /\ StatusIdle

GatewayNext ==
    \/ GwStart
    \/ GwStop
    \/ SocketOpens
    \/ SocketCloses
    \/ ReconnectTimerFires

SpecGateway == GatewayInit /\ [][GatewayNext]_vars

\* C36: the client has at most one socket that is connecting or open, and
\* that socket is the one this.ws refers to; no socket outlives being replaced
\* or dropped by a later start(), a close event or a reconnect timer.
C36_OneLiveSocket ==
    /\ LiveSockets <= 1
    /\ orphans.connecting + orphans.open = 0

\* C37: the backoff stays within 800 ms and 15000 ms; the first delay since
\* construction or since an open is 800 ms, and every later one is the
\* previous one times 1.7, capped at 15000 ms, so never smaller.
C37_BackoffBounded ==
    /\ backoffMs >= InitialBackoffMs * Scale
    /\ backoffMs <= MaxBackoffMs * Scale
    /\ delays.last # 0 =>
         /\ delays.last >= InitialBackoffMs * Scale
         /\ delays.last <= MaxBackoffMs * Scale
    /\ delays.last # 0 /\ delays.previous = 0 => delays.last = InitialBackoffMs * Scale
    /\ delays.previous # 0 =>
         /\ delays.last >= delays.previous
         /\ delays.last * 10 <= delays.previous * 17
         /\ \/ delays.last = MaxBackoffMs * Scale
            \/ delays.last * 10 = delays.previous * 17

\* Seven failures in a row: the delay has reached the cap.
C37_Witness ==
    /\ delays.last = MaxBackoffMs * Scale
    /\ delays.previous > InitialBackoffMs * Scale
    /\ delays.previous < MaxBackoffMs * Scale
    /\ backoffMs = MaxBackoffMs * Scale

-----------------------------------------------------------------------------
\* The status protocol: the gateway server (createGatewayServer) puts the
\* agent's state into hello and status messages, the dashboard (OGApp) reads
\* it back in handleMessage.  A message is the object JSON carries: booleans,
\* numbers, strings and null travel unchanged, and a field that is not there
\* reads as undefined.

MaxMessages == 2

\* OpenClawWatcher.isOpenClawInstalled(): existsSync(OPENCLAW_PATHS.base)
isOpenClawInstalled == openclawDir

\* What getLastAssessment() can return: null, or the assessment of a scan.
Assessments ==
    {NoAssessment}
    \cup {calculateRiskAssessment(<<>>, calculateBlastRadius(c)) : c \in ScanConfigs}

\* The three fields both messages carry.
agentStatus ==
    [configured |-> isConfigured,
     openclawInstalled |-> isOpenClawInstalled,
     assessment |-> lastAssessment]

\* wss.on("connection"): the hello message carries the state in msg.state
\* (and a clientId the dashboard does not read).
helloMessage == [type |-> "hello", state |-> agentStatus]

\* handleWebSocketMessage, case "get-status": the same fields, flat.
statusMessage ==
    [type |-> "status",
     configured |-> isConfigured,
     openclawInstalled |-> isOpenClawInstalled,
     assessment |-> lastAssessment]

\* Boolean(obj.field) of a field that holds a boolean when it is there.
BooleanOf(obj, field) == field \in DOMAIN obj /\ obj[field]

\* handleMessage, cases "hello" and "status": from msg.state when there is
\* one, else from msg itself; the assessment is assigned only when truthy.
handleMessage(app, msg) ==
    IF msg.type \notin {"hello", "status"} THEN app
    ELSE LET from == IF "state" \in DOMAIN msg THEN msg.state ELSE msg
         IN  [configured |-> BooleanOf(from, "configured"),
              moltbotInstalled |-> BooleanOf(from, "moltbotInstalled"),
              assessment |-> IF "assessment" \in DOMAIN from
                                /\ from.assessment # NoAssessment
                             THEN from.assessment
                             ELSE app.assessment]

StatusInit ==
    /\ openclawDir \in BOOLEAN
    /\ wire = <<>>
    /\ dashboard = NewDashboard
    /\ handled = NoMessage
    /\ openclawState = NoConfig
    /\ agentApiKey \in AgentKeys
    /\ agentLlmClient = clientFor(agentApiKey)
    /\ lastAssessment \in Assessments
    /\ scans = <<>>
    /\ quickResult = NoQuickCheck
    /\ analysis = NoAnalysis
    /\ agentSettings = DefaultSettings
    /\ clientBuiltFrom = clientArgs(agentApiKey, agentSettings)
    /\ DetectIdle /\ BatchIdle /\ HooksIdle /\ ScoreIdle /\ SnapIdle /\ PluginIdle
    /\ LifeIdle /\ EmitIdle /\ WatchIdle /\ GwIdle

\* A dashboard connects: the server sends hello.
Connection ==
    /\ Len(wire) < MaxMessages
    /\ wire' = Append(wire, helloMessage)
    /\ UNCHANGED <<openclawDir, dashboard, handled>>
    /\ UNCHANGED <<detectVars, batchVars, hookVars, scoreVars, agentVars, snapVars, pluginVars,
                   lifeVars, configVars, emitVars, watchVars, gwVars>>

\* The server handles get-status: it sends status.
GetStatus ==
    /\ Len(wire) < MaxMessages
    /\ wire' = Append(wire, statusMessage)
    /\ UNCHANGED <<openclawDir, dashboard, handled>>
    /\ UNCHANGED <<detectVars, batchVars, hookVars, scoreVars, agentVars, snapVars, pluginVars,
                   lifeVars, configVars, emitVars, watchVars, gwVars>>

\* The dashboard's socket delivers the next message to handleMessage.
HandleMessage ==
    /\ wire # <<>>
    /\ dashboard' = handleMessage(dashboard, Head(wire))
    /\ handled' = Head(wire)
    /\ wire' = Tail(wire)
    /\ UNCHANGED openclawDir
    /\ UNCHANGED <<detectVars, batchVars, hookVars, scoreVars, agentVars, snapVars, pluginVars,
                   lifeVars, configVars, emitVars, watchVars, gwVars>>

StatusNext ==
    \/ Connection
    \/ GetStatus
    \/ HandleMessage

SpecStatus == StatusInit /\ [][StatusNext]_vars

\* The state the server put into a hello or status message.
Sent(msg) == IF "state" \in DOMAIN msg THEN msg.state ELSE msg

\* C38: after the dashboard handled a hello or status message, its
\* configured flag, its installed flag and its assessment are the
\* isConfigured(), isOpenClawInstalled() and getLastAssessment() values the
\* server put into that message.
C38_DashboardAgrees ==
    handled.type \in {"hello", "status"} =>
        /\ dashboard.configured = Sent(handled).configured
        /\ dashboard.moltbotInstalled = Sent(handled).openclawInstalled
        /\ dashboard.assessment = Sent(handled).assessment

====
